---- MODULE Spec2Model ----
(***************************************************************************)
(* Model of the AuthKit React Native SDK session core (src/src/client.ts)  *)
(* with its storage adapters, PKCE/state generator and HTTP interceptors.  *)
(*                                                                         *)
(* Every public method of AuthKitClient is one action.  A method is a      *)
(* sequential async function; its body is written as an operator that      *)
(* maps the state at the call to the SET of outcomes it can settle with,   *)
(* one outcome per combination of answers of the authorization server and  *)
(* of the browser session.  An outcome carries the state at settlement,    *)
(* whether the promise resolved, and its value or error.                   *)
(***************************************************************************)
EXTENDS Integers, Sequences, FiniteSets, TLC

VARIABLES
  config,              \* this.config, fixed by the constructor
  platform,            \* the platform key-value store behind the adapter
  lastRefreshAttempt,  \* this.lastRefreshAttempt
  clock,               \* Date.now()
  last,                \* the settled call the caller has not yet resumed from
  inflight,            \* the calls in flight, when callers do not wait for
                       \* one call to settle before they make the next
  eventListeners,      \* this.eventListeners
  authState            \* the state of the AuthProvider mounted on the client

vars ==
  <<config, platform, lastRefreshAttempt, clock, last, inflight,
    eventListeners, authState>>

(***************************************************************************)
(* Bounds of the model                                                     *)
(***************************************************************************)
StartClock == 5000       \* Date.now() at construction
MaxTicks == 1            \* number of clock advances explored

(***************************************************************************)
(* Program constants                                                       *)
(***************************************************************************)
REFRESH_COOLDOWN == 1000
USER_CACHE_DURATION == 5 * 60 * 1000

STORAGE_KEYS ==
  [ ACCESS_TOKEN |-> "access_token", REFRESH_TOKEN |-> "refresh_token",
    TOKEN_TYPE |-> "token_type", EXPIRES_AT |-> "expires_at",
    USER |-> "user", USER_CACHED_AT |-> "user_cached_at",
    PKCE_VERIFIER |-> "pkce_verifier", OAUTH_STATE |-> "oauth_state" ]

ENDPOINTS ==
  [ AUTHORIZE |-> "/oauth/authorize/", TOKEN |-> "/oauth/token/",
    USERINFO |-> "/api/auth/userinfo/", REGISTER |-> "/api/auth/register/",
    PROFILE |-> "/api/auth/me/", INTROSPECT |-> "/oauth/introspect/",
    REVOKE |-> "/oauth/revoke_token/" ]

GRANT_TYPES ==
  [ AUTHORIZATION_CODE |-> "authorization_code",
    REFRESH_TOKEN |-> "refresh_token" ]

EVENTS ==
  [ TOKEN_REFRESHED |-> "token_refreshed", TOKEN_EXPIRED |-> "token_expired",
    AUTH_ERROR |-> "auth_error", USER_LOGGED_IN |-> "user_logged_in",
    USER_LOGGED_OUT |-> "user_logged_out",
    USER_REGISTERED |-> "user_registered", USER_UPDATED |-> "user_updated",
    NETWORK_ERROR |-> "network_error" ]

\* DEFAULTS.PKCE, DEFAULTS.AUTO_REFRESH and DEFAULTS.SECURE_STORAGE
DEFAULTS == [ PKCE |-> TRUE, AUTO_REFRESH |-> TRUE, SECURE_STORAGE |-> TRUE ]

(***************************************************************************)
(* JavaScript values                                                       *)
(***************************************************************************)
\* null / undefined: a reserved value that no string of the model is equal to
Null == "<null>"

\* truthiness of a string-or-null value: null and "" are falsy
Truthy(x) == x # Null /\ x # ""

DigitChars == <<"0", "1", "2", "3", "4", "5", "6", "7", "8", "9">>

\* Number.prototype.toString() of a non-negative integer
RECURSIVE toString(_)
toString(n) ==
  IF n < 10 THEN DigitChars[n + 1]
  ELSE toString(n \div 10) \o DigitChars[(n % 10) + 1]

\* parseInt(str, 10): the value of the leading run of decimal digits, NaN
\* when the string does not start with a digit
RECURSIVE ParseDigits(_, _)
ParseDigits(str, acc) ==
  IF Len(str) = 0 \/ (\A d \in 1..10 : DigitChars[d] # Head(str)) THEN acc
  ELSE ParseDigits(Tail(str),
                   acc * 10 + (CHOOSE d \in 1..10 : DigitChars[d] = Head(str)) - 1)

parseInt(str) ==
  IF Len(str) = 0 \/ (\A d \in 1..10 : DigitChars[d] # Head(str))
  THEN [nan |-> TRUE, n |-> 0]
  ELSE [nan |-> FALSE, n |-> ParseDigits(str, 0)]

\* String.prototype.startsWith / includes
StartsWith(str, pre) ==
  Len(pre) <= Len(str) /\ SubSeq(str, 1, Len(pre)) = pre

Includes(str, sub) ==
  \E i \in 1..(Len(str) - Len(sub) + 1) : SubSeq(str, i, i + Len(sub) - 1) = sub

\* JSON.stringify / JSON.parse of a user object {id}; a user object is
\* represented by its id
JSONstringify(user) == "{\"id\":\"" \o user \o "\"}"

JSONparse(str) ==
  LET open == "{\"id\":\""
      close == "\"}"
  IN  IF /\ StartsWith(str, open)
         /\ Len(str) >= Len(open) + Len(close)
         /\ SubSeq(str, Len(str) - Len(close) + 1, Len(str)) = close
      THEN [ok |-> TRUE,
            v |-> SubSeq(str, Len(open) + 1, Len(str) - Len(close))]
      ELSE [ok |-> FALSE, v |-> Null]

(***************************************************************************)
(* Errors (src/src/errors.ts)                                              *)
(***************************************************************************)
AuthKitErrorNames ==
  { "AuthKitError", "AuthenticationError", "NetworkError", "TokenError",
    "ValidationError", "ConfigurationError", "StorageError",
    "BiometricError", "DeepLinkError" }

Err(name, message) == [name |-> name, message |-> message, status |-> 0]


AuthenticationError(message) == Err("AuthenticationError", message)
TokenError(message) == Err("TokenError", message)
StorageError(message) == Err("StorageError", message)
ConfigurationError(message) == Err("ConfigurationError", message)
ValidationError(message) == Err("ValidationError", message)
NetworkError(message, statusCode) ==
  [name |-> "NetworkError", message |-> message, status |-> statusCode]

\* the error axios rejects with; status 0 stands for "no response received"
AxiosError(status) ==
  [name |-> "AxiosError", message |-> "Request failed", status |-> status]

(***************************************************************************)
(* Storage adapters (src/src/storage)                                      *)
(***************************************************************************)
\* a key of another tenant of the same platform store
ForeignKey == "other-key"

\* the prefix of SecureStoreAdapter and the prefix of AsyncStorageAdapter
prefix == IF config.secureStorage THEN "omam-authkit:" ELSE "@omam-authkit:"


getKey(key) == prefix \o key

Adapter_getItem(p, key) ==
  IF getKey(key) \in DOMAIN p THEN p[getKey(key)] ELSE Null

Adapter_setItem(p, key, value) ==
  [k \in (DOMAIN p) \cup {getKey(key)} |->
     IF k = getKey(key) THEN value ELSE p[k]]

Adapter_removeItem(p, key) ==
  [k \in (DOMAIN p) \ {getKey(key)} |-> p[k]]

AsyncStorage_clear_everyKey(p) == [k \in {} |-> Null]

AsyncStorage_clear(p) ==
  LET authKitKeys == {k \in DOMAIN p : StartsWith(k, prefix)}
  IN  [k \in (DOMAIN p) \ authKitKeys |-> p[k]]

knownKeys_noCacheTimestamp ==
  << "access_token", "refresh_token", "token_type", "expires_at", "user",
     "pkce_verifier", "oauth_state" >>

knownKeys ==
  << "access_token", "refresh_token", "token_type", "expires_at", "user",
     "user_cached_at", "pkce_verifier", "oauth_state" >>

RECURSIVE RemoveAll(_, _)
RemoveAll(p, keys) ==
  IF keys = <<>> THEN p
  ELSE RemoveAll(Adapter_removeItem(p, Head(keys)), Tail(keys))

SecureStore_clear(p) == RemoveAll(p, knownKeys)

Adapter_clear(p) ==
  IF config.secureStorage THEN SecureStore_clear(p) ELSE AsyncStorage_clear(p)

(***************************************************************************)
(* The state a call runs on, and the outcomes it settles with              *)
(*   sent    the requests the transport dispatched during the call, each   *)
(*           with the answer it received                                   *)
(*   events  the events emitted during the call                            *)
(*   refreshes  the ids of the requests whose 401 made the response        *)
(*           interceptor call refreshAccessToken                           *)
(*   stored  the token response of the last storeTokens of the call and    *)
(*           Date.now() at that moment, NotStored if none                  *)
(***************************************************************************)
NotStored == [at |-> 0, data |-> Null]

\* the value of a call that resolved with no token metadata
NoView ==
  [accessToken |-> Null, refreshToken |-> Null, tokenType |-> Null,
   expiresAt |-> 0]

CallState ==
  [ platform |-> platform, lastRefreshAttempt |-> lastRefreshAttempt,
    clock |-> clock, sent |-> <<>>, events |-> <<>>, refreshes |-> <<>>,
    stored |-> NotStored, view |-> NoView, storageFailed |-> FALSE ]

\* a resolved promise carries a value v (a string), a rejected one an error e
Resolve(s, v) == {[s |-> s, ok |-> TRUE, v |-> v, e |-> Err("", "")]}
Reject(s, e) == {[s |-> s, ok |-> FALSE, v |-> Null, e |-> e]}

\* await: continue with K on the resolved outcomes, pass rejections on
Then(S, K(_, _)) == UNION {IF o.ok THEN K(o.s, o.v) ELSE {o} : o \in S}

\* try/catch around an awaited promise: handle rejections with H
Catch(S, H(_, _)) == UNION {IF o.ok THEN {o} ELSE H(o.s, o.e) : o \in S}

getItem(s, key) == Adapter_getItem(s.platform, key)
setItem(s, key, value) ==
  [s EXCEPT !.platform = Adapter_setItem(@, key, value)]
removeItem(s, key) == [s EXCEPT !.platform = Adapter_removeItem(@, key)]

emit(s, event, data) ==
  [s EXCEPT !.events = Append(@, [name |-> event, data |-> data])]

(***************************************************************************)
(* Time                                                                    *)
(***************************************************************************)
\* the clock may advance by d from t while the time elapsed since StartClock,
\* counted in cache durations and cooldowns, stays within MaxTicks
CanAdvance(t, d) ==
  LET elapsed == t + d - StartClock
      ticksUsed == (elapsed \div USER_CACHE_DURATION)
                   + (((elapsed % USER_CACHE_DURATION) + REFRESH_COOLDOWN - 1)
                        \div REFRESH_COOLDOWN)
  IN  d = 0 \/ ticksUsed <= MaxTicks


(***************************************************************************)
(* The authorization server and the browser session (environment)          *)
(***************************************************************************)
\* the bodies the token endpoint may answer with, by name; refresh_token is
\* optional, expires_in is in seconds
TokenResponse ==
  [ T1 |-> [access_token |-> "A", token_type |-> "Bearer",
            refresh_token |-> "R1", expires_in |-> 3600],
    T2 |-> [access_token |-> "B", token_type |-> "Bearer",
            refresh_token |-> Null, expires_in |-> 1] ]



\* the answers of the server: a status (0 stands for a request that received
\* no response) after a latency
Answers ==
  { [status |-> 200, lat |-> 0], [status |-> 401, lat |-> 0],
    [status |-> 401, lat |-> REFRESH_COOLDOWN], [status |-> 500, lat |-> 0],
    [status |-> 0, lat |-> 0] }

ServerResponses(s, cfg) ==
  LET dataFor ==
        IF cfg.url = ENDPOINTS.TOKEN THEN DOMAIN TokenResponse
        ELSE IF cfg.url \in {ENDPOINTS.USERINFO, ENDPOINTS.PROFILE} THEN {"u1", "u2"}
        ELSE IF cfg.url = ENDPOINTS.REGISTER THEN {"u1"}
        ELSE {""}
  IN  { [status |-> a.status, lat |-> a.lat, data |-> d] :
          a \in {b \in Answers : CanAdvance(s.clock, b.lat) /\ b.status = 200},
          d \in dataFor }
      \cup { [status |-> a.status, lat |-> a.lat, data |-> Null] :
               a \in {b \in Answers : CanAdvance(s.clock, b.lat) /\ b.status # 200} }

(***************************************************************************)
(* Token record                                                            *)
(***************************************************************************)
getAccessToken(s) == getItem(s, STORAGE_KEYS.ACCESS_TOKEN)

getRefreshToken(s) == getItem(s, STORAGE_KEYS.REFRESH_TOKEN)

\* the absolute expiry instant of a token received at instant now
ExpiresAt_seconds(now, expires_in) == now + expires_in

ExpiresAt_relative(now, expires_in) == expires_in * 1000

ExpiresAt(now, expires_in) == now + expires_in * 1000

storeTokens(s, data) ==
  LET tokens == TokenResponse[data]
      s1 == setItem(s, STORAGE_KEYS.ACCESS_TOKEN, tokens.access_token)
      s2 == setItem(s1, STORAGE_KEYS.TOKEN_TYPE, tokens.token_type)
      s3 == IF Truthy(tokens.refresh_token)
            THEN setItem(s2, STORAGE_KEYS.REFRESH_TOKEN, tokens.refresh_token)
            ELSE s2
      expiresAt == ExpiresAt(s3.clock, tokens.expires_in)
      s4 == setItem(s3, STORAGE_KEYS.EXPIRES_AT, toString(expiresAt))
  IN  [s4 EXCEPT !.stored = [at |-> s3.clock, data |-> data]]

(***************************************************************************)
(* Error translation                                                       *)
(***************************************************************************)
\* returns the state (handleError may emit network_error) and the error
handleError(s, error) ==
  IF error.name = "AxiosError" /\ error.status # 0
  THEN IF error.status = 401
       THEN [s |-> s, err |-> AuthenticationError(error.message)]
       ELSE [s |-> s, err |-> NetworkError(error.message, error.status)]
  ELSE IF error.name = "AxiosError"
  THEN [s |-> emit(s, EVENTS.NETWORK_ERROR, error.name),
        err |-> NetworkError("Network request failed", 0)]
  ELSE IF error.name \in AuthKitErrorNames
  THEN [s |-> s, err |-> error]
  ELSE [s |-> s, err |-> Err("AuthKitError", error.message)]

\* throw this.handleError(error)
ThrowHandled(s, error) ==
  LET h == handleError(s, error) IN Reject(h.s, h.err)

(***************************************************************************)
(* HTTP transport with its interceptors, and refreshAccessToken            *)
(***************************************************************************)
protectedEndpoints ==
  { ENDPOINTS.USERINFO, ENDPOINTS.PROFILE, ENDPOINTS.INTROSPECT,
    ENDPOINTS.REVOKE }

Bearer(token) == "Bearer " \o token

\* a request config as a method creates it
Request(s, method, url, body) ==
  [ id |-> Len(s.sent) + 1, method |-> method, url |-> url, auth |-> Null,
    retry |-> FALSE, body |-> body ]

NoBody == [grant_type |-> Null, code |-> Null, code_verifier |-> Null,
           refresh_token |-> Null, token |-> Null]

RequestInterceptor(s, cfg) ==
  IF \E endpoint \in protectedEndpoints : Includes(cfg.url, endpoint)
  THEN LET token == getAccessToken(s)
       IN  IF Truthy(token) THEN [cfg EXCEPT !.auth = Bearer(token)] ELSE cfg
  ELSE cfg

\* the response interceptor refreshes and replays on a 401 of a request
\* that was not replayed before
ShouldRetry_anyError(r, originalRequest) ==
  r.status # 200 /\ ~originalRequest.retry

ShouldRetry(r, originalRequest) == r.status = 401 /\ ~originalRequest.retry

\* the rate limiting check of refreshAccessToken
CooldownActive_seconds(now, lastAttempt) ==
  now - lastAttempt < REFRESH_COOLDOWN \div 1000

CooldownActive(now, lastAttempt) == now - lastAttempt < REFRESH_COOLDOWN

\* this.lastRefreshAttempt = now
RecordAttempt_early(now, previous) == now - REFRESH_COOLDOWN \div 2

RecordAttempt(now, previous) == now

\* the catch block of refreshAccessToken announces the failure
RefreshFailed_silent(s, error) == s

RefreshFailed(s, error) == emit(s, EVENTS.TOKEN_EXPIRED, error.name)

RateLimitMessage == "Token refresh rate limit exceeded. Please wait before retrying."

\* the gate of refreshAccessToken rejects an attempt inside the cooldown
GateRejects_recording(s, now) ==
  Reject([s EXCEPT !.lastRefreshAttempt = now], TokenError(RateLimitMessage))

GateRejects(s, now) == Reject(s, TokenError(RateLimitMessage))

RECURSIVE Http(_, _)
RECURSIVE ResponseInterceptor(_, _, _)
RECURSIVE refreshAccessToken(_)

\* this.http(config): the request goes through the request interceptor, is
\* dispatched, and the answer of the server goes through the response
\* interceptor
Http(s, cfg) ==
  LET sentCfg == RequestInterceptor(s, cfg)
      dispatched(r) ==
        [s EXCEPT !.clock = @ + r.lat,
                  !.sent = Append(@, [id |-> sentCfg.id,
                                      method |-> sentCfg.method,
                                      url |-> sentCfg.url,
                                      auth |-> sentCfg.auth,
                                      retry |-> sentCfg.retry,
                                      body |-> sentCfg.body,
                                      status |-> r.status, data |-> r.data])]
  IN  UNION { ResponseInterceptor(dispatched(r), sentCfg, r) :
                r \in ServerResponses(s, sentCfg) }

ResponseInterceptor(s, originalRequest, r) ==
  IF r.status = 200 THEN Resolve(s, r.data)
  ELSE IF ShouldRetry(r, originalRequest)
  THEN LET retried == [originalRequest EXCEPT !.retry = TRUE]
           s1 == [s EXCEPT !.refreshes = Append(@, retried.id)]
       IN  UNION { IF o.ok
                   THEN LET token == getAccessToken(o.s)
                        IN  Http(o.s, IF Truthy(token)
                                      THEN [retried EXCEPT !.auth = Bearer(token)]
                                      ELSE retried)
                   ELSE Reject(emit(o.s, EVENTS.TOKEN_EXPIRED, o.e.name), o.e) :
                   o \in refreshAccessToken(s1) }
  ELSE ThrowHandled(s, AxiosError(r.status))

refreshAccessToken(s) ==
  LET now == s.clock
      body ==
        IF CooldownActive(now, s.lastRefreshAttempt)
        THEN GateRejects(s, now)
        ELSE LET s1 == [s EXCEPT !.lastRefreshAttempt = RecordAttempt(now, @)]
                 refreshToken == getRefreshToken(s1)
             IN  IF ~Truthy(refreshToken)
                 THEN Reject(s1, TokenError("No refresh token available"))
                 ELSE Then(Http(s1, Request(s1, "POST", ENDPOINTS.TOKEN,
                                  [NoBody EXCEPT
                                     !.grant_type = GRANT_TYPES.REFRESH_TOKEN,
                                     !.refresh_token = refreshToken])),
                           LAMBDA s2, tokens :
                             Resolve(emit(storeTokens(s2, tokens),
                                          EVENTS.TOKEN_REFRESHED, tokens),
                                     tokens))
  IN  Catch(body, LAMBDA s2, error :
                    ThrowHandled(RefreshFailed(s2, error), error))

(***************************************************************************)
(* PKCE / state generator (random draws) and the browser session           *)
(***************************************************************************)
\* the n-th draw of generateState() and of generateCodeVerifier()
Draws == {1, 2}
generateState(n) == <<"s1", "s2">>[n]
generateCodeVerifier(n) == <<"v1", "v2">>[n]


\* what WebBrowser.openAuthSessionAsync settles with; "threw" is a rejection.
\* link is parseDeepLinkUrl(result.url): the query parameters of the callback
\* URL; parsed is FALSE for a URL that has no query parameters
BrowserResults ==
  LET noLink == [parsed |-> FALSE, code |-> Null, state |-> Null, error |-> Null]
      deepLinks ==
        { [parsed |-> TRUE, code |-> "c", state |-> st, error |-> Null] :
            st \in {generateState(n) : n \in Draws} \cup {Null} }
        \cup { [parsed |-> TRUE, code |-> Null, state |-> "s1", error |-> Null],
               [parsed |-> TRUE, code |-> "c", state |-> "s1",
                error |-> "access_denied"],
               noLink }
  IN  { [type |-> "success", link |-> l] : l \in deepLinks }
      \cup { [type |-> ty, link |-> noLink] : ty \in {"cancel", "dismiss", "threw"} }

(***************************************************************************)
(* AuthKitClient methods                                                   *)
(***************************************************************************)
\* the cache age test of getCurrentUser
CacheFresh_ignoresAge(now, cachedAt) == TRUE

CacheFresh(now, cachedAt) == now - cachedAt < USER_CACHE_DURATION

\* the catch of getCurrentUser
ProfileFetchFailed_staleFallback(s, error) ==
  LET cachedUser == JSONparse(getItem(s, STORAGE_KEYS.USER))
  IN  IF cachedUser.ok THEN Resolve(s, cachedUser.v) ELSE ThrowHandled(s, error)

ProfileFetchFailed(s, error) == ThrowHandled(s, error)

getCurrentUser(s, forceRefresh) ==
  LET cachedUser == getItem(s, STORAGE_KEYS.USER)
      cachedAt == getItem(s, STORAGE_KEYS.USER_CACHED_AT)
      parsedAt == parseInt(cachedAt)
      fresh == /\ ~forceRefresh
               /\ Truthy(cachedUser) /\ Truthy(cachedAt)
               /\ ~parsedAt.nan
               /\ CacheFresh(s.clock, parsedAt.n)
      body ==
        IF fresh
        THEN LET user == JSONparse(cachedUser)
             IN  IF user.ok THEN Resolve(s, user.v)
                 ELSE Reject(s, Err("SyntaxError", "Unexpected token"))
        ELSE Then(Http(s, Request(s, "GET", ENDPOINTS.USERINFO, NoBody)),
                  LAMBDA s2, user :
                    LET s3 == setItem(s2, STORAGE_KEYS.USER, JSONstringify(user))
                        s4 == setItem(s3, STORAGE_KEYS.USER_CACHED_AT,
                                      toString(s3.clock))
                    IN  Resolve(s4, user))
  IN  Catch(body, LAMBDA s2, error : ProfileFetchFailed(s2, error))

cleanupOAuthState_stateOnly(s) == removeItem(s, STORAGE_KEYS.OAUTH_STATE)

\* the CSRF check: the returned state against the persisted one
CsrfCheckFails_unlessMissing(state, savedState) ==
  savedState # Null /\ state # savedState

CsrfCheckFails(state, savedState) == state # savedState

cleanupOAuthState(s) ==
  removeItem(removeItem(s, STORAGE_KEYS.OAUTH_STATE), STORAGE_KEYS.PKCE_VERIFIER)


handleCallback(s, code, state) ==
  LET savedState == getItem(s, STORAGE_KEYS.OAUTH_STATE)
      codeVerifier == getItem(s, STORAGE_KEYS.PKCE_VERIFIER)
      request ==
        Request(s, "POST", ENDPOINTS.TOKEN,
                [NoBody EXCEPT
                   !.grant_type = GRANT_TYPES.AUTHORIZATION_CODE,
                   !.code = code,
                   !.code_verifier =
                      IF config.pkce /\ Truthy(codeVerifier)
                      THEN codeVerifier ELSE Null])
      body ==
        IF CsrfCheckFails(state, savedState)
        THEN Reject(s, AuthenticationError("Invalid state parameter - CSRF check failed"))
        ELSE Then(Http(s, request),
                  LAMBDA s2, tokens :
                    LET s3 == storeTokens(s2, tokens)
                        s4 == removeItem(s3, STORAGE_KEYS.OAUTH_STATE)
                        s5 == removeItem(s4, STORAGE_KEYS.PKCE_VERIFIER)
                    IN  Then(getCurrentUser(s5, FALSE),
                             LAMBDA s6, user :
                               Resolve(emit(s6, EVENTS.USER_LOGGED_IN, user),
                                       tokens)))
  IN  Catch(body, LAMBDA s2, error : ThrowHandled(s2, error))

\* generateCodeChallenge and buildAuthorizationUrl: the authorization URL
\* carries the state and, with PKCE, the challenge of the verifier
\* Crypto.digestStringAsync(SHA256, v, {encoding: BASE64}) of the verifiers
\* of the model
Digest ==
  [ v \in {"v1", "v2", "test-verifier"} |->
      CASE v = "v1" -> "O/wmlZTvZJIo6adLqwDwQu/JHVrMb77jGjgugNQjiP4="
        [] v = "v2" -> "+wTctpcOTD0Yc95R/VpQ17tGszgxE2AmZcNQ7EC1+ZA="
        [] v = "test-verifier"
             -> "JBbiqONGWPaAmwXk/8bT6UnlPfrn65D32eZlJS+zGG0=" ]

RECURSIVE base64UrlEncode(_)
base64UrlEncode(str) ==
  IF Len(str) = 0 THEN ""
  ELSE LET c == Head(str)
       IN  (IF c = "+" THEN "-" ELSE IF c = "/" THEN "_"
            ELSE IF c = "=" THEN "" ELSE c) \o base64UrlEncode(Tail(str))

generateCodeChallenge_timestamped(codeVerifier, method) ==
  IF method = "plain" THEN codeVerifier
  ELSE base64UrlEncode(Digest[codeVerifier]) \o toString(clock)

generateCodeChallenge(codeVerifier, method) ==
  IF method = "plain" THEN codeVerifier
  ELSE base64UrlEncode(Digest[codeVerifier])

generatePKCEParams(n, method) ==
  LET codeVerifier == generateCodeVerifier(n)
  IN  [ codeVerifier |-> codeVerifier,
        codeChallenge |-> generateCodeChallenge(codeVerifier, method),
        codeChallengeMethod |-> method ]

buildAuthorizationUrl(state, codeChallenge) ==
  ENDPOINTS.AUTHORIZE \o "?response_type=code&state=" \o state
  \o (IF Truthy(codeChallenge)
      THEN "&code_challenge=" \o codeChallenge \o "&code_challenge_method=S256"
      ELSE "")

\* the part login() and getAuthorizationUrl() share: persist the pending
\* transaction of draw n and build the URL
StartTransaction(s, n) ==
  LET state == generateState(n)
      s1 == setItem(s, STORAGE_KEYS.OAUTH_STATE, state)
      pkceParams == generatePKCEParams(n, "S256")
      s2 == IF config.pkce
            THEN setItem(s1, STORAGE_KEYS.PKCE_VERIFIER, pkceParams.codeVerifier)
            ELSE s1
      codeChallenge == IF config.pkce THEN pkceParams.codeChallenge ELSE Null
  IN  [s |-> s2, url |-> buildAuthorizationUrl(state, codeChallenge)]

\* StartTransaction with the crypto module answering as crypto says: it
\* works ("ok"), or getRandomBytes throws in generateState() ("randomFails")
StartTransactionUnder(s, n, crypto) ==
  IF crypto = "randomFails"
  THEN Reject(s, Err("Error", "getRandomBytes failed"))
  ELSE LET started == StartTransaction(s, n)
       IN  Resolve(started.s, started.url)

login(s, n, crypto, result) ==
  LET link == result.link
      body ==
        Then(StartTransactionUnder(s, n, crypto),
             LAMBDA started, authUrl :
        LET savedState == getItem(started, STORAGE_KEYS.OAUTH_STATE)
        IN
        IF result.type = "threw"
        THEN Reject(started, Err("Error", "openAuthSessionAsync failed"))
        ELSE IF result.type = "success"
        THEN IF ~link.parsed
             THEN Reject(started, Err("DeepLinkError",
                                      "No query parameters found in deep link"))
             ELSE IF Truthy(link.error)
             THEN Reject(cleanupOAuthState(started),
                         AuthenticationError("OAuth error"))
             ELSE IF ~Truthy(link.code) \/ ~Truthy(link.state)
             THEN Reject(cleanupOAuthState(started),
                         AuthenticationError("Missing code or state in callback"))
             ELSE IF CsrfCheckFails(link.state, savedState)
             THEN Reject(cleanupOAuthState(started),
                         AuthenticationError("Invalid state parameter"))
             ELSE Then(handleCallback(started, link.code, link.state),
                       LAMBDA s2, tokens : Resolve(s2, ""))
        ELSE IF result.type = "cancel"
        THEN Reject(cleanupOAuthState(started),
                    AuthenticationError("Login cancelled by user"))
        ELSE Resolve(started, ""))
  IN  Catch(body, LAMBDA s2, error :
                    ThrowHandled(emit(cleanupOAuthState(s2), EVENTS.AUTH_ERROR,
                                      error.name),
                                 error))

isAuthenticated_ignoresFailure(s) ==
  LET token == getAccessToken(s)
      expiresAt == getItem(s, STORAGE_KEYS.EXPIRES_AT)
      expiry == parseInt(expiresAt)
  IN  IF ~Truthy(token) THEN Resolve(s, "false")
      ELSE IF Truthy(expiresAt) /\ ~expiry.nan /\ s.clock >= expiry.n
      THEN UNION { Resolve(o.s, "true") : o \in refreshAccessToken(s) }
      ELSE Resolve(s, "true")

isAuthenticated(s) ==
  LET token == getAccessToken(s)
      expiresAt == getItem(s, STORAGE_KEYS.EXPIRES_AT)
      expiry == parseInt(expiresAt)
  IN  IF ~Truthy(token) THEN Resolve(s, "false")
      ELSE IF Truthy(expiresAt) /\ ~expiry.nan /\ s.clock >= expiry.n
      THEN UNION { Resolve(o.s, IF o.ok THEN "true" ELSE "false") :
                     o \in refreshAccessToken(s) }
      ELSE Resolve(s, "true")

logout(s) ==
  LET accessToken == getAccessToken(s)
      revoked ==
        IF Truthy(accessToken)
        THEN Catch(Http(s, Request(s, "POST", ENDPOINTS.REVOKE,
                                   [NoBody EXCEPT !.token = accessToken])),
                   LAMBDA s2, error : Resolve(s2, ""))
        ELSE Resolve(s, "")
      body ==
        Then(revoked,
             LAMBDA s2, v :
               LET s3 == [s2 EXCEPT !.platform = Adapter_clear(@)]
               IN  Resolve(emit(s3, EVENTS.USER_LOGGED_OUT, ""), ""))
  IN  Catch(body, LAMBDA s2, error : ThrowHandled(s2, error))

\* registration inputs: a valid form, a missing field, a mismatch
RegistrationData ==
  { [email |-> "e", password |-> "p", password_confirm |-> "p"],
    [email |-> "e", password |-> "p", password_confirm |-> "q"],
    [email |-> "e", password |-> "p", password_confirm |-> Null],
    [email |-> Null, password |-> "p", password_confirm |-> "p"],
    [email |-> "e", password |-> "", password_confirm |-> ""] }

\* what a caller passed as registration data, as the observation records it
RegistrationForm(data) ==
  IF Null \in {data.email, data.password, data.password_confirm}
       \/ "" \in {data.email, data.password, data.password_confirm}
  THEN "absent"
  ELSE IF data.password = data.password_confirm THEN "complete" ELSE "mismatch"

register(s, data) ==
  LET body ==
        IF ~Truthy(data.email) \/ ~Truthy(data.password)
           \/ ~Truthy(data.password_confirm)
        THEN Reject(s, ValidationError(
                 "Email, password, and password confirmation are required"))
        ELSE IF data.password # data.password_confirm
        THEN Reject(s, ValidationError("Passwords do not match"))
        ELSE Then(Http(s, Request(s, "POST", ENDPOINTS.REGISTER, NoBody)),
                  LAMBDA s2, response :
                    Resolve(emit(s2, EVENTS.USER_REGISTERED, response),
                            response))
  IN  Catch(body, LAMBDA s2, error : ThrowHandled(s2, error))

updateProfile_restartsWindow(s) ==
  LET body ==
        Then(Http(s, Request(s, "PATCH", ENDPOINTS.PROFILE, NoBody)),
             LAMBDA s2, user :
               LET s3 == setItem(s2, STORAGE_KEYS.USER, JSONstringify(user))
                   s4 == setItem(s3, STORAGE_KEYS.USER_CACHED_AT,
                                 toString(s3.clock))
               IN  Resolve(emit(s4, EVENTS.USER_UPDATED, user), user))
  IN  Catch(body, LAMBDA s2, error : ThrowHandled(s2, error))

updateProfile(s) ==
  LET body ==
        Then(Http(s, Request(s, "PATCH", ENDPOINTS.PROFILE, NoBody)),
             LAMBDA s2, user :
               LET s3 == setItem(s2, STORAGE_KEYS.USER, JSONstringify(user))
               IN  Resolve(emit(s3, EVENTS.USER_UPDATED, user), user))
  IN  Catch(body, LAMBDA s2, error : ThrowHandled(s2, error))

loginWithSocial(s, result) ==
  LET body ==
        IF result.type = "threw"
        THEN Reject(s, Err("Error", "openAuthSessionAsync failed"))
        ELSE IF result.type = "success"
        THEN Then(getCurrentUser(s, FALSE),
                  LAMBDA s2, user :
                    Resolve(emit(s2, EVENTS.USER_LOGGED_IN, user), ""))
        ELSE IF result.type = "cancel"
        THEN Reject(s, AuthenticationError("Social login cancelled by user"))
        ELSE Resolve(s, "")
  IN  Catch(body, LAMBDA s2, error :
                    ThrowHandled(emit(s2, EVENTS.AUTH_ERROR, error.name), error))

getAuthorizationUrl(s, n, crypto) == StartTransactionUnder(s, n, crypto)

exchangeAuthorizationCode(s, code, codeVerifier) ==
  LET storedVerifier == getItem(s, STORAGE_KEYS.PKCE_VERIFIER)
      request ==
        Request(s, "POST", ENDPOINTS.TOKEN,
                [NoBody EXCEPT
                   !.grant_type = GRANT_TYPES.AUTHORIZATION_CODE,
                   !.code = code,
                   !.code_verifier =
                      IF Truthy(codeVerifier) THEN codeVerifier
                      ELSE IF config.pkce /\ Truthy(storedVerifier)
                      THEN storedVerifier ELSE Null])
      body ==
        Then(Http(s, request),
             LAMBDA s2, tokens : Resolve(storeTokens(s2, tokens), tokens))
  IN  Catch(body, LAMBDA s2, error : ThrowHandled(s2, error))

revokeToken(s, token) ==
  Catch(Http(s, Request(s, "POST", ENDPOINTS.REVOKE,
                        [NoBody EXCEPT !.token = token])),
        LAMBDA s2, error : ThrowHandled(s2, error))

\* this.storage.getItem(key) where the platform read may fail: the adapter
\* then throws a StorageError
ReadItem(s, key, platformFails) ==
  IF platformFails
  THEN Reject([s EXCEPT !.storageFailed = TRUE],
              StorageError("Failed to get item from storage"))
  ELSE Resolve(s, getItem(s, key))

\* the catch block of getTokens
TokensOnFailure_rethrows(s, error) == ThrowHandled(s, error)

TokensOnFailure(s, error) == Resolve(s, Null)

\* getTokens() when the failAt-th storage read fails (0: none does)
getTokens(s, failAt) ==
  Catch(
    Then(ReadItem(s, STORAGE_KEYS.ACCESS_TOKEN, failAt = 1),
      LAMBDA s1, accessToken :
        IF ~Truthy(accessToken) THEN Resolve(s1, Null)
        ELSE
    Then(ReadItem(s1, STORAGE_KEYS.TOKEN_TYPE, failAt = 2),
      LAMBDA s2, storedType :
    Then(ReadItem(s2, STORAGE_KEYS.REFRESH_TOKEN, failAt = 3),
      LAMBDA s3, storedRefresh :
    Then(ReadItem(s3, STORAGE_KEYS.EXPIRES_AT, failAt = 4),
      LAMBDA s4, expiresAtStr :
        LET tokenType == IF Truthy(storedType) THEN storedType ELSE "Bearer"
            refreshToken == IF Truthy(storedRefresh) THEN storedRefresh ELSE Null
            parsed == parseInt(expiresAtStr)
            expiresAt == IF Truthy(expiresAtStr) /\ ~parsed.nan
                         THEN parsed.n ELSE 0
        IN  Resolve([s4 EXCEPT !.view =
                       [accessToken |-> accessToken,
                        refreshToken |-> refreshToken,
                        tokenType |-> tokenType,
                        expiresAt |-> expiresAt]],
                    "tokens"))))),
    LAMBDA s5, error : TokensOnFailure(s5, error))

clearStorage(s) == Resolve([s EXCEPT !.platform = Adapter_clear(@)], "")

(***************************************************************************)
(* The state machine                                                       *)
(***************************************************************************)
Observation(op, arg, o) ==
  [ op |-> op, arg |-> arg, ok |-> o.ok, v |-> o.v, e |-> o.e,
    sent |-> o.s.sent, events |-> o.s.events, refreshes |-> o.s.refreshes,
    stored |-> o.s.stored, view |-> o.s.view,
    storageFailed |-> o.s.storageFailed ]

\* no call is pending: the caller is free to issue the next one
Idle ==
  [ op |-> "idle", arg |-> "", ok |-> TRUE, v |-> "", e |-> Err("", ""),
    sent |-> <<>>, events |-> <<>>, refreshes |-> <<>>, stored |-> NotStored,
    view |-> NoView, storageFailed |-> FALSE ]

\* the caller issues one call at a time and awaits it: a call starts when no
\* settled call is pending; the two session queries may also be made by the
\* continuation of a call that stored tokens, before anything else happens
CanCall == last = Idle

\* the call of method op settles with outcome o
Settle(op, arg, o) ==
  /\ platform' = o.s.platform
  /\ lastRefreshAttempt' = o.s.lastRefreshAttempt
  /\ clock' = o.s.clock
  /\ last' = Observation(op, arg, o)
  /\ UNCHANGED <<config, eventListeners, authState, inflight>>

\* this.eventListeners = new Map(): no event has a set of listeners. The Set
\* of an event is the sequence of its listeners in insertion order
NoListeners == [event \in {} |-> <<>>]

\* useState<AuthState>(...) of the AuthProvider
InitialAuthState ==
  [ isAuthenticated |-> FALSE, user |-> Null, isLoading |-> TRUE,
    error |-> Null, tokens |-> Null ]

\* the callers that may have a call in flight at the same time, and the
\* call of a caller that has none
Callers == {1, 2}

NoCall ==
  [ op |-> "none", stack |-> <<>>, retry |-> FALSE, settled |-> FALSE,
    ok |-> TRUE, v |-> "", e |-> "", events |-> <<>>, answers |-> <<>>,
    passes |-> <<>> ]


\* a required field of the config is missing: undefined, null or ""
Missing_undefinedOnly(x) == x = Null

Missing(x) == ~Truthy(x)

\* an optional flag of the config: Boolean(flag) unless it is undefined
Flag(flag, default) == IF flag # Null THEN flag = "true" ELSE default

\* new AuthKitClient(config): the validation and the merge with the defaults;
\* the fields of the argument are strings, Null standing for undefined
constructor(raw) ==
  IF Missing(raw.authKitUrl)
  THEN [ok |-> FALSE, e |-> ConfigurationError("authKitUrl is required")]
  ELSE IF Missing(raw.clientId)
  THEN [ok |-> FALSE, e |-> ConfigurationError("clientId is required")]
  ELSE IF Missing(raw.redirectUri)
  THEN [ok |-> FALSE, e |-> ConfigurationError("redirectUri is required")]
  ELSE [ok |-> TRUE, e |-> Err("", ""),
        config |-> [pkce |-> Flag(raw.pkce, DEFAULTS.PKCE),
                    autoRefresh |-> Flag(raw.autoRefresh, DEFAULTS.AUTO_REFRESH),
                    secureStorage |-> Flag(raw.secureStorage,
                                           DEFAULTS.SECURE_STORAGE)]]

\* the configurations explored: the client constructed with the required
\* fields alone, and with the three flags switched off
Configs ==
  { constructor(raw).config : raw \in
    { [authKitUrl |-> "https://auth", clientId |-> "app",
       redirectUri |-> "app://cb",
       pkce |-> Null, autoRefresh |-> Null, secureStorage |-> Null],
      [authKitUrl |-> "https://auth", clientId |-> "app",
       redirectUri |-> "app://cb",
       pkce |-> "false", autoRefresh |-> "false", secureStorage |-> "false"] } }

\* new AuthKitClient(config). The platform store holds a key of another
\* library, and possibly the access token of an earlier run whose
\* storeTokens did not get to write expires_at
Init ==
  /\ config \in Configs
  /\ platform \in
       { [k \in {ForeignKey} |-> "x"],
         [k \in {ForeignKey, getKey(STORAGE_KEYS.ACCESS_TOKEN)} |->
            IF k = ForeignKey THEN "x" ELSE "A"] }
  /\ lastRefreshAttempt = 0
  /\ clock = StartClock
  /\ last = Idle
  /\ inflight = [p \in Callers |-> NoCall]
  /\ eventListeners = NoListeners
  /\ authState = InitialAuthState

\* the awaiting caller resumes with the result of the settled call
Return ==
  /\ last # Idle
  /\ last' = Idle
  /\ UNCHANGED <<config, eventListeners, authState,
                 platform, lastRefreshAttempt, clock, inflight>>

\* time passes between two calls: a cooldown, a cache lifetime, or, right
\* after a refresh attempt, half a cooldown
Tick ==
  \E d \in {REFRESH_COOLDOWN \div 2, REFRESH_COOLDOWN, USER_CACHE_DURATION} :
    /\ last = Idle
    /\ d < REFRESH_COOLDOWN => lastRefreshAttempt = clock
    /\ CanAdvance(clock, d)
    /\ clock' = clock + d
    /\ UNCHANGED <<config, eventListeners, authState,
                   platform, lastRefreshAttempt, last, inflight>>

Login ==
  /\ CanCall
  /\ \E n \in Draws, crypto \in {"ok", "randomFails"}, result \in BrowserResults :
       \E o \in login(CallState, n, crypto, result) :
         Settle("login", IF crypto = "ok" THEN result.type ELSE "unopened", o)

HandleCallback ==
  /\ CanCall
  /\ \E state \in {generateState(n) : n \in Draws} :
       \E o \in handleCallback(CallState, "c", state) :
         Settle("handleCallback", state, o)

RefreshAccessToken ==
  /\ CanCall
  /\ \E o \in refreshAccessToken(CallState) : Settle("refreshAccessToken", "", o)

IsAuthenticated ==
  /\ (CanCall \/ last.stored # NotStored)
  /\ \E o \in isAuthenticated(CallState) :
       Settle("isAuthenticated", last.op, o)

GetAccessToken ==
  /\ (CanCall \/ last.stored # NotStored)
  /\ \E o \in Resolve(CallState, getAccessToken(CallState)) :
       Settle("getAccessToken", last.op, o)

\* failAt: which of the four storage reads fails, 0 for none
GetTokens ==
  /\ (CanCall \/ last.stored # NotStored)
  /\ \E failAt \in 0 .. 4 :
       \E o \in getTokens(CallState, failAt) : Settle("getTokens", last.op, o)

GetCurrentUser ==
  /\ CanCall
  /\ \E forceRefresh \in BOOLEAN :
       \E o \in getCurrentUser(CallState, forceRefresh) :
         Settle("getCurrentUser", IF forceRefresh THEN "true" ELSE "false", o)

UpdateProfile ==
  /\ CanCall
  /\ \E o \in updateProfile(CallState) : Settle("updateProfile", "", o)

Register ==
  /\ CanCall
  /\ \E data \in RegistrationData :
       \E o \in register(CallState, data) :
         Settle("register", RegistrationForm(data), o)

Logout ==
  /\ CanCall
  /\ \E o \in logout(CallState) : Settle("logout", "", o)

LoginWithSocial ==
  /\ CanCall
  /\ \E result \in BrowserResults :
       \E o \in loginWithSocial(CallState, result) :
         Settle("loginWithSocial", result.type, o)

GetAuthorizationUrl ==
  /\ CanCall
  /\ \E n \in Draws, crypto \in {"ok", "randomFails"} :
       \E o \in getAuthorizationUrl(CallState, n, crypto) :
         Settle("getAuthorizationUrl", "", o)

ExchangeAuthorizationCode ==
  /\ CanCall
  /\ \E codeVerifier \in {generateCodeVerifier(n) : n \in Draws} \cup {Null} :
       \E o \in exchangeAuthorizationCode(CallState, "c", codeVerifier) :
         Settle("exchangeAuthorizationCode", codeVerifier, o)

RevokeToken ==
  /\ CanCall
  /\ \E token \in {"A", "B"} :
       \E o \in revokeToken(CallState, token) : Settle("revokeToken", token, o)

ClearStorage ==
  /\ CanCall
  /\ \E o \in clearStorage(CallState) : Settle("clearStorage", "", o)

Next ==
  \/ Return
  \/ Tick
  \/ Login
  \/ HandleCallback
  \/ RefreshAccessToken
  \/ IsAuthenticated
  \/ GetAccessToken
  \/ GetTokens
  \/ GetCurrentUser
  \/ UpdateProfile
  \/ Register
  \/ Logout
  \/ LoginWithSocial
  \/ GetAuthorizationUrl
  \/ ExchangeAuthorizationCode
  \/ RevokeToken
  \/ ClearStorage

Spec == Init /\ [][Next]_vars

(***************************************************************************)
(* Properties                                                              *)
(***************************************************************************)
\* what the adapter reads in the current state
Stored(key) == Adapter_getItem(platform, key)

PendingTransactionKeys == {STORAGE_KEYS.OAUTH_STATE, STORAGE_KEYS.PKCE_VERIFIER}

NoPendingTransaction == \A key \in PendingTransactionKeys : Stored(key) = Null

IsAllowListed(url) == \E endpoint \in protectedEndpoints : Includes(url, endpoint)

TokenPosts(sent) == {i \in DOMAIN sent : sent[i].url = ENDPOINTS.TOKEN}

\* C1: a handleCallback(code, state) whose state differs from the state
\* persisted under oauth_state at the call (a missing one included) rejects
\* with an AuthenticationError and posts nothing to the token endpoint.
C1_CsrfMismatchRejects ==
  [][ (/\ last'.op = "handleCallback"
       /\ last'.arg # Stored(STORAGE_KEYS.OAUTH_STATE))
      => (/\ ~last'.ok
          /\ last'.e.name = "AuthenticationError"
          /\ TokenPosts(last'.sent) = {}) ]_vars

\* a handleCallback was rejected by the CSRF check after an earlier call
\* had persisted another state
C1_Witness ==
  /\ last.op = "handleCallback"
  /\ ~last.ok
  /\ last.e.message = "Invalid state parameter - CSRF check failed"
  /\ Stored(STORAGE_KEYS.OAUTH_STATE) \in {generateState(n) : n \in Draws}
  /\ last.arg # Stored(STORAGE_KEYS.OAUTH_STATE)

C3_SecondRefreshRateLimited ==
  [][ /\ (/\ last'.op = "refreshAccessToken"
          /\ clock - lastRefreshAttempt < REFRESH_COOLDOWN
          /\ Truthy(Stored(STORAGE_KEYS.REFRESH_TOKEN)))
         => (/\ ~last'.ok
             /\ last'.e.name = "TokenError"
             /\ last'.sent = <<>>)
      /\ (/\ last'.op = "refreshAccessToken"
          /\ last'.sent # <<>>
          /\ last'.sent[1].status = 200)
         => Len(last'.sent) = 1 ]_vars

\* a second refresh was rejected by the cooldown, with a refresh token stored
C3_Witness ==
  /\ last.op = "refreshAccessToken"
  /\ ~last.ok
  /\ last.e.message = RateLimitMessage
  /\ last.sent = <<>>
  /\ Truthy(Stored(STORAGE_KEYS.REFRESH_TOKEN))
  /\ lastRefreshAttempt >= StartClock

\* C4: no request to an endpoint outside the allow-list (userinfo, profile,
\* introspect, revoke) is sent with an Authorization header, on a first
\* attempt or on the replay that follows a 401.
C4_NoAuthorizationOutsideAllowList ==
  \A i \in DOMAIN last.sent :
    ~IsAllowListed(last.sent[i].url) => last.sent[i].auth = Null

Attempts(sent, id) == {i \in DOMAIN sent : sent[i].id = id}

Replays(sent, id) == {i \in Attempts(sent, id) : sent[i].retry}

RefreshesFor(refreshes, id) == {k \in DOMAIN refreshes : refreshes[k] = id}

Unretried401(sent) == {i \in DOMAIN sent : sent[i].status = 401 /\ ~sent[i].retry}

\* the methods that let the failure of their request reach the caller
PropagatingOps ==
  {"getCurrentUser", "updateProfile", "register", "revokeToken",
   "refreshAccessToken", "handleCallback", "exchangeAuthorizationCode",
   "login", "loginWithSocial"}

\* C5: a 401 on a request whose retry flag is unset triggers one refresh
\* attempt, and no other response triggers one; when the refresh succeeds the
\* request is replayed exactly once, carrying the new token; a 401 on the
\* replay is not retried and reaches the caller as the translated failure;
\* no request is sent more than twice.
C5_RetryOnceOn401 ==
  LET sent == last.sent
      refreshes == last.refreshes
  IN  /\ \A i \in DOMAIN sent :
           /\ Cardinality(Attempts(sent, sent[i].id)) <= 2
           /\ Cardinality(Replays(sent, sent[i].id)) <= 1
           /\ Cardinality(RefreshesFor(refreshes, sent[i].id))
                = (IF \E j \in Unretried401(sent) : sent[j].id = sent[i].id
                   THEN 1 ELSE 0)
      /\ \A i \in Unretried401(sent) :
           (/\ i + 1 \in DOMAIN sent
            /\ sent[i + 1].url = ENDPOINTS.TOKEN
            /\ sent[i + 1].status = 200)
           => (/\ i + 2 \in DOMAIN sent
               /\ sent[i + 2].id = sent[i].id
               /\ sent[i + 2].retry)
      /\ \A j \in DOMAIN sent :
           sent[j].retry
           => (/\ \E i \in Unretried401(sent) : i < j /\ sent[i].id = sent[j].id
               /\ j - 1 \in DOMAIN sent
               /\ sent[j - 1].url = ENDPOINTS.TOKEN
               /\ sent[j - 1].status = 200
               /\ sent[j].auth = Bearer(TokenResponse[sent[j - 1].data].access_token)
               /\ sent[j].status = 401
                  => (/\ \A k \in DOMAIN sent : k > j => sent[k].id # sent[j].id
                      /\ (last.op \in PropagatingOps /\ j = Len(sent))
                         => (/\ ~last.ok
                             /\ last.e.name = "AuthenticationError")))

C5_Witness ==
  /\ last.op = "getCurrentUser"
  /\ Len(last.sent) = 3
  /\ last.sent[1].status = 401 /\ ~last.sent[1].retry
  /\ last.sent[2].url = ENDPOINTS.TOKEN /\ last.sent[2].status = 200
  /\ last.sent[3].id = last.sent[1].id /\ last.sent[3].retry
  /\ last.sent[3].status = 401
  /\ ~last.ok

\* the direct requests of a call: those that do not directly follow a 401
\* answered to a first attempt, which makes the interceptor refresh
DirectRequests(sent) ==
  {k \in DOMAIN sent : ~sent[k].retry /\ (k - 1) \notin Unretried401(sent)}

LastEvent(events) == IF events = <<>> THEN "" ELSE events[Len(events)].name

\* C6: isAuthenticated() never rejects; it resolves false when no access
\* token is stored; true without any request when no expiry is recorded or
\* the expiry lies in the future; with an expired token it makes one refresh
\* attempt and resolves true exactly when that refresh succeeds, false when
\* it fails, and false without any request when no refresh token is stored.
C6_IsAuthenticated ==
  [][ last'.op = "isAuthenticated" =>
        LET token == Stored(STORAGE_KEYS.ACCESS_TOKEN)
            expiresAt == Stored(STORAGE_KEYS.EXPIRES_AT)
            refreshToken == Stored(STORAGE_KEYS.REFRESH_TOKEN)
            expired == Truthy(expiresAt) /\ clock >= parseInt(expiresAt).n
        IN  /\ last'.ok
            /\ last'.v \in {"true", "false"}
            /\ ~Truthy(token)
               => (last'.v = "false" /\ last'.sent = <<>> /\ last'.events = <<>>)
            /\ (Truthy(token) /\ ~expired)
               => (/\ last'.v = "true"
                   /\ last'.sent = <<>>
                   /\ last'.events = <<>>
                   /\ lastRefreshAttempt' = lastRefreshAttempt)
            /\ (Truthy(token) /\ expired)
               => (/\ last'.v = "true" <=> LastEvent(last'.events) = EVENTS.TOKEN_REFRESHED
                   /\ last'.v = "false" <=> LastEvent(last'.events) = EVENTS.TOKEN_EXPIRED
                   /\ Cardinality(DirectRequests(last'.sent)) <= 1
                   /\ \A k \in DirectRequests(last'.sent) :
                        /\ k = 1
                        /\ last'.sent[k].url = ENDPOINTS.TOKEN
                        /\ last'.sent[k].body.grant_type = GRANT_TYPES.REFRESH_TOKEN
                   /\ ~Truthy(refreshToken)
                      => (last'.v = "false" /\ last'.sent = <<>>)) ]_vars

C6_Witness ==
  /\ last.op = "isAuthenticated"
  /\ last.v = "false"
  /\ last.sent # <<>>
  /\ last.sent[1].url = ENDPOINTS.TOKEN
  /\ last.sent[1].status = 500

C6_WitnessNoExpiry ==
  /\ last.op = "isAuthenticated"
  /\ last.v = "true"
  /\ Truthy(Stored(STORAGE_KEYS.ACCESS_TOKEN))
  /\ ~Truthy(Stored(STORAGE_KEYS.EXPIRES_AT))

\* the methods after which the stored token record is still in storage
KeepingOps ==
  {"login", "handleCallback", "exchangeAuthorizationCode",
   "refreshAccessToken", "loginWithSocial", "getCurrentUser",
   "updateProfile", "register", "revokeToken", "isAuthenticated"}

\* C7: once an exchange or a refresh stored a token response with access
\* token A and a positive expires_in, a getAccessToken() made next returns A
\* and an isAuthenticated() made next, before that lifetime elapsed, resolves
\* true without attempting a refresh.
C7_StoredTokensAuthenticate ==
  [][ (/\ last.op \in KeepingOps
       /\ last.stored # NotStored
       /\ TokenResponse[last.stored.data].expires_in > 0)
      => LET tokens == TokenResponse[last.stored.data]
         IN  /\ last'.op = "getAccessToken" => last'.v = tokens.access_token
             /\ (/\ last'.op = "isAuthenticated"
                 /\ clock - last.stored.at < tokens.expires_in * 1000)
                => (/\ last'.ok
                    /\ last'.v = "true"
                    /\ last'.sent = <<>>
                    /\ last'.events = <<>>
                    /\ lastRefreshAttempt' = lastRefreshAttempt) ]_vars

C7_Witness ==
  /\ last.op = "isAuthenticated"
  /\ last.arg = "handleCallback"
  /\ last.v = "true"
  /\ last.sent = <<>>
  /\ Stored(STORAGE_KEYS.ACCESS_TOKEN) = "B"

C7_WitnessAfterRefresh ==
  /\ last.op = "getAccessToken"
  /\ last.arg = "refreshAccessToken"
  /\ last.v = "A"

UserinfoFetches(sent) ==
  {i \in DOMAIN sent : sent[i].url = ENDPOINTS.USERINFO /\ sent[i].status = 200}

\* C9: a handleCallback that succeeds fetched the profile from the userinfo
\* endpoint with the newly stored token, wrote that profile to the cache, and
\* emitted user_logged_in with it: a profile cached earlier is never the
\* payload.
C9_CallbackFetchesProfile ==
  (last.op = "handleCallback" /\ last.ok)
  => /\ last.events # <<>>
     /\ last.events[Len(last.events)].name = EVENTS.USER_LOGGED_IN
     /\ \E i \in UserinfoFetches(last.sent) :
          /\ last.sent[i].auth = Bearer(Stored(STORAGE_KEYS.ACCESS_TOKEN))
          /\ last.events[Len(last.events)].data = last.sent[i].data
          /\ Stored(STORAGE_KEYS.USER) = JSONstringify(last.sent[i].data)

\* C10: after an exchangeAuthorizationCode(code) that succeeds the tokens it
\* received are persisted and neither oauth_state nor pkce_verifier, written
\* by getAuthorizationUrl(), is left in storage.
C10_HeadlessExchangeCleansUp ==
  (last.op = "exchangeAuthorizationCode" /\ last.ok)
  => /\ Stored(STORAGE_KEYS.ACCESS_TOKEN) = TokenResponse[last.v].access_token
     /\ NoPendingTransaction

\* C11: getCurrentUser() without forceRefresh returns the cached profile and
\* sends nothing while the cache is younger than five minutes; in every other
\* case (forceRefresh, no cache, cache of five minutes or more) it starts with
\* a GET of the userinfo endpoint and, on success, returns the fetched
\* profile and overwrites the cache and the cache timestamp.
C11_ProfileCacheWindow ==
  [][ last'.op = "getCurrentUser" =>
        LET cachedUser == Stored(STORAGE_KEYS.USER)
            cachedAt == Stored(STORAGE_KEYS.USER_CACHED_AT)
            fresh == /\ last'.arg = "false"
                     /\ Truthy(cachedUser) /\ Truthy(cachedAt)
                     /\ clock - parseInt(cachedAt).n < USER_CACHE_DURATION
        IN  IF fresh
            THEN /\ last'.ok
                 /\ last'.v = JSONparse(cachedUser).v
                 /\ last'.sent = <<>>
                 /\ platform' = platform
            ELSE /\ last'.sent # <<>>
                 /\ last'.sent[1].url = ENDPOINTS.USERINFO
                 /\ last'.sent[1].method = "GET"
                 /\ last'.ok
                    => (/\ \E i \in UserinfoFetches(last'.sent) :
                             last'.v = last'.sent[i].data
                        /\ Adapter_getItem(platform', STORAGE_KEYS.USER)
                             = JSONstringify(last'.v)
                        /\ Adapter_getItem(platform', STORAGE_KEYS.USER_CACHED_AT)
                             = toString(clock')) ]_vars

C11_Witness ==
  /\ last.op = "getCurrentUser"
  /\ last.arg = "false"
  /\ last.ok
  /\ last.sent # <<>>
  /\ clock >= StartClock + USER_CACHE_DURATION
  /\ Stored(STORAGE_KEYS.USER_CACHED_AT) = toString(clock)

C11_WitnessCacheHit ==
  /\ last.op = "getCurrentUser"
  /\ last.arg = "false"
  /\ last.ok
  /\ last.sent = <<>>
  /\ last.v \in {"u1", "u2"}

EventsNamed(events, name) == {k \in DOMAIN events : events[k].name = name}

RefreshPosts(sent) ==
  {i \in DOMAIN sent : /\ sent[i].url = ENDPOINTS.TOKEN
                       /\ sent[i].body.grant_type = GRANT_TYPES.REFRESH_TOKEN}

\* C12: a refreshAccessToken() call that resolves persisted the tokens it
\* returns and emitted token_refreshed with them last; one that rejects
\* emitted token_expired with the error last and rejects with that error, an
\* error of the taxonomy.  Counting the calls the response interceptor makes
\* while the call runs, every call emits exactly one of the two events: as
\* many token_refreshed as refresh requests answered 200, and one
\* token_expired per failed call besides the one the interceptor adds for
\* each failed call it made.
C12_RefreshEvents ==
  last.op = "refreshAccessToken" =>
    LET calls == 1 + Len(last.refreshes)
        refreshed == Cardinality(EventsNamed(last.events, EVENTS.TOKEN_REFRESHED))
        expired == Cardinality(EventsNamed(last.events, EVENTS.TOKEN_EXPIRED))
        failed == calls - refreshed
        final == last.events[Len(last.events)]
    IN  /\ last.events # <<>>
        /\ refreshed
             = Cardinality({i \in RefreshPosts(last.sent) : last.sent[i].status = 200})
        /\ expired = 2 * failed - (IF last.ok THEN 0 ELSE 1)
        /\ IF last.ok
           THEN /\ final.name = EVENTS.TOKEN_REFRESHED
                /\ final.data = last.v
                /\ last.stored.data = last.v
                /\ Stored(STORAGE_KEYS.ACCESS_TOKEN) = TokenResponse[last.v].access_token
           ELSE /\ final.name = EVENTS.TOKEN_EXPIRED
                /\ final.data = last.e.name
                /\ last.e.name \in AuthKitErrorNames
        /\ last.refreshes = <<>> => refreshed + expired = 1

C12_Witness ==
  /\ last.op = "refreshAccessToken"
  /\ ~last.ok
  /\ last.e.name = "NetworkError"
  /\ Len(last.sent) = 1
  /\ last.sent[1].status = 500
  /\ Len(last.events) = 1

C12_WitnessNested ==
  /\ last.op = "refreshAccessToken"
  /\ ~last.ok
  /\ Len(last.refreshes) = 1
  /\ Cardinality(EventsNamed(last.events, EVENTS.TOKEN_REFRESHED)) = 1

\* errors as handleError may receive them
ErrorSamples ==
  { AxiosError(401), AxiosError(500), AxiosError(0),
    Err("Error", "failed"), Err("SyntaxError", "Unexpected token") }
  \cup { Err(name, "translated") : name \in AuthKitErrorNames }

\* C13: every rejection that reaches the caller of a public method is an
\* error of the AuthKitError taxonomy, and handleError returns an error it
\* already translated unchanged.
C13_RejectionsAreTranslated ==
  /\ ~last.ok => last.e.name \in AuthKitErrorNames
  /\ \A error \in ErrorSamples :
       LET translated == handleError(CallState, error).err
       IN  /\ translated.name \in AuthKitErrorNames
           /\ handleError(CallState, translated).err = translated

\* C14: getTokens() never rejects and changes nothing; it returns null when
\* no access token is stored or a storage read failed, and otherwise a view
\* whose accessToken, refreshToken, tokenType and expiresAt are the stored
\* values (Bearer and 0 standing for a missing token type and expiry).
C14_GetTokens ==
  [][ last'.op = "getTokens" =>
        LET accessToken == Stored(STORAGE_KEYS.ACCESS_TOKEN)
            tokenType == Stored(STORAGE_KEYS.TOKEN_TYPE)
            expiresAt == Stored(STORAGE_KEYS.EXPIRES_AT)
        IN  /\ last'.ok
            /\ last'.sent = <<>>
            /\ last'.events = <<>>
            /\ platform' = platform
            /\ IF ~Truthy(accessToken) \/ last'.storageFailed
               THEN last'.v = Null /\ last'.view = NoView
               ELSE /\ last'.v # Null
                    /\ last'.view.accessToken = accessToken
                    /\ last'.view.refreshToken = Stored(STORAGE_KEYS.REFRESH_TOKEN)
                    /\ last'.view.tokenType
                         = (IF Truthy(tokenType) THEN tokenType ELSE "Bearer")
                    /\ last'.view.expiresAt
                         = (IF Truthy(expiresAt) THEN parseInt(expiresAt).n ELSE 0)
    ]_vars

C14_Witness ==
  /\ last.op = "getTokens"
  /\ last.ok
  /\ last.storageFailed
  /\ last.v = Null
  /\ Truthy(Stored(STORAGE_KEYS.ACCESS_TOKEN))
  /\ Truthy(Stored(STORAGE_KEYS.EXPIRES_AT))

C14_WitnessView ==
  /\ last.op = "getTokens"
  /\ last.view.accessToken = "B"
  /\ last.view.refreshToken = "R1"
  /\ last.view.expiresAt = StartClock + 1000

WriteItem(s, key, value, platformFails) ==
  IF platformFails
  THEN Reject([s EXCEPT !.storageFailed = TRUE],
              StorageError("Failed to set item in storage"))
  ELSE Resolve(setItem(s, key, value), "")

DeleteItem(s, key, platformFails) ==
  IF platformFails
  THEN Reject([s EXCEPT !.storageFailed = TRUE],
              StorageError("Failed to remove item from storage"))
  ELSE Resolve(removeItem(s, key), "")

\* SecureStoreAdapter.clear(): every known key is removed through
\* removeItem(key).catch(() => {})
RECURSIVE SecureStore_clearUnder(_, _, _)
SecureStore_clearUnder(s, keys, failing) ==
  IF keys = <<>> THEN Resolve(s, "")
  ELSE Then(Catch(DeleteItem(s, Head(keys), Head(keys) \in failing),
                  LAMBDA s2, error : Resolve(s2, "")),
            LAMBDA s3, v : SecureStore_clearUnder(s3, Tail(keys), failing))

\* adapter.clear() where the platform calls for the keys in failing fail;
\* AsyncStorageAdapter.clear() is getAllKeys, filter, multiRemove in one try
ClearUnder(s, failing) ==
  IF config.secureStorage
  THEN Catch(SecureStore_clearUnder(s, knownKeys, failing),
             LAMBDA s2, error :
               Reject(s2, StorageError("Failed to clear secure storage")))
  ELSE IF failing # {}
  THEN Reject([s EXCEPT !.storageFailed = TRUE],
              StorageError("Failed to clear storage"))
  ELSE Resolve([s EXCEPT !.platform = AsyncStorage_clear(@)], "")

\* the adapter of a constructed client over a store that holds a foreign key
AdapterInit ==
  /\ config \in Configs
  /\ platform = [k \in {ForeignKey} |-> "x"]
  /\ lastRefreshAttempt = 0
  /\ clock = StartClock
  /\ last = Idle
  /\ inflight = [p \in Callers |-> NoCall]
  /\ eventListeners = NoListeners
  /\ authState = InitialAuthState

AdapterGetItem ==
  \E key \in {STORAGE_KEYS.ACCESS_TOKEN, STORAGE_KEYS.USER, "custom"},
     platformFails \in BOOLEAN :
    \E o \in ReadItem(CallState, key, platformFails) :
      Settle("getItem", key, o)

AdapterSetItem ==
  \E key \in {STORAGE_KEYS.ACCESS_TOKEN, STORAGE_KEYS.USER, "custom"},
     value \in {"a", "b"}, platformFails \in BOOLEAN :
    \E o \in WriteItem(CallState, key, value, platformFails) :
      Settle("setItem", key, o)

AdapterRemoveItem ==
  \E key \in {STORAGE_KEYS.ACCESS_TOKEN, STORAGE_KEYS.USER, "custom"},
     platformFails \in BOOLEAN :
    \E o \in DeleteItem(CallState, key, platformFails) :
      Settle("removeItem", key, o)

AdapterClear ==
  \E failing \in {{}, {STORAGE_KEYS.ACCESS_TOKEN}} :
    \E o \in ClearUnder(CallState, failing) :
      Settle("clear",
             toString(Cardinality({k \in DOMAIN platform : StartsWith(k, prefix)})),
             o)

AdapterNext ==
  \/ AdapterGetItem
  \/ AdapterSetItem
  \/ AdapterRemoveItem
  \/ AdapterClear

AdapterSpec == AdapterInit /\ [][AdapterNext]_vars

\* C16: an adapter operation (getItem, setItem, removeItem, clear) whose
\* platform call failed rejects with a StorageError: none resolves after a
\* failed platform call.
C16_AdapterFailuresReject ==
  (last.op \in {"getItem", "setItem", "removeItem", "clear"} /\ last.storageFailed)
  => (~last.ok /\ last.e.name = "StorageError")

\* C17: a client configured with autoRefresh=false sends a refresh-token
\* request only in an explicit refreshAccessToken() call, never from
\* isAuthenticated() or from the response interceptor of another call.
C17_NoAutoRefreshWhenDisabled ==
  (~config.autoRefresh /\ RefreshPosts(last.sent) # {})
  => (/\ last.op = "refreshAccessToken"
      /\ \A i \in RefreshPosts(last.sent) : i = 1)

(***************************************************************************)
(* Construction on its own, over the arguments a caller may pass           *)
(***************************************************************************)
\* the state before construction: config holds the argument
ConstructInit ==
  /\ config \in [ authKitUrl : {Null, "", "x"}, clientId : {Null, "", "x"},
                  redirectUri : {Null, "", "x"}, pkce : {Null, "true", "false"},
                  autoRefresh : {Null, "true", "false"},
                  secureStorage : {Null, "true", "false"} ]
  /\ platform = [k \in {ForeignKey} |-> "x"]
  /\ lastRefreshAttempt = 0
  /\ clock = StartClock
  /\ last = Idle
  /\ inflight = [p \in Callers |-> NoCall]
  /\ eventListeners = NoListeners
  /\ authState = InitialAuthState

\* new AuthKitClient(config): it throws, or config becomes the merged config
Construct ==
  /\ last.op = "idle"
  /\ LET made == constructor(config)
     IN  /\ last' = [Idle EXCEPT !.op = "constructor", !.ok = made.ok,
                                 !.e = made.e]
         /\ config' = IF made.ok THEN made.config ELSE config
  /\ UNCHANGED <<platform, lastRefreshAttempt, clock, inflight,
                 eventListeners, authState>>

ConstructNext == Construct

ConstructSpec == ConstructInit /\ [][ConstructNext]_vars

\* C18: constructing the client with authKitUrl, clientId or redirectUri
\* missing or empty throws a ConfigurationError, whatever the other fields
\* are; with the three present the construction succeeds.
C18_RequiredConfig ==
  [][ last'.op = "constructor" =>
        IF \E field \in {"authKitUrl", "clientId", "redirectUri"} :
             config[field] \in {Null, ""}
        THEN /\ ~last'.ok
             /\ last'.e.name = "ConfigurationError"
             /\ config' = config
        ELSE last'.ok ]_vars

C18_Witness ==
  /\ last.op = "constructor"
  /\ ~last.ok
  /\ last.e.message = "redirectUri is required"
  /\ config.redirectUri = ""
  /\ config.pkce = "false"

\* the call state of a call made in the state a step leads to
CallStateAfter ==
  [CallState EXCEPT !.platform = platform', !.clock = clock',
                    !.lastRefreshAttempt = lastRefreshAttempt']

\* the effect of updateProfile() on the profile cache: on success the cached
\* profile is the returned one and the cache timestamp is the one before, so
\* that a getCurrentUser() made next inside a freshness window that was
\* running returns the updated profile with no request; on failure profile
\* and timestamp are the ones before and user_updated is not emitted
UpdateProfileFrame ==
  LET cachedAt == Stored(STORAGE_KEYS.USER_CACHED_AT)
  IN  IF last'.ok
      THEN /\ \E i \in DOMAIN last'.sent :
                /\ last'.sent[i].url = ENDPOINTS.PROFILE
                /\ last'.sent[i].method = "PATCH"
                /\ last'.sent[i].status = 200
                /\ last'.v = last'.sent[i].data
           /\ Adapter_getItem(platform', STORAGE_KEYS.USER) = JSONstringify(last'.v)
           /\ Adapter_getItem(platform', STORAGE_KEYS.USER_CACHED_AT) = cachedAt
           /\ last'.events[Len(last'.events)]
                = [name |-> EVENTS.USER_UPDATED, data |-> last'.v]
           /\ (Truthy(cachedAt) /\ clock' - parseInt(cachedAt).n < USER_CACHE_DURATION)
              => getCurrentUser(CallStateAfter, FALSE)
                   = Resolve(CallStateAfter, last'.v)
      ELSE /\ Adapter_getItem(platform', STORAGE_KEYS.USER)
                = Stored(STORAGE_KEYS.USER)
           /\ Adapter_getItem(platform', STORAGE_KEYS.USER_CACHED_AT) = cachedAt
           /\ EventsNamed(last'.events, EVENTS.USER_UPDATED) = {}

\* C19 as stated: updateProfile() has that effect on the cache, and a failed
\* updateProfile() emits no event at all.
C19_UpdateProfileNoEventOnFailure ==
  [][ last'.op = "updateProfile" =>
        /\ UpdateProfileFrame
        /\ ~last'.ok => last'.events = <<>> ]_vars

\* C19 amended: updateProfile() has that effect on the cache; a failed
\* updateProfile() does not emit user_updated, and the events it does emit
\* are those of the transport: network_error, token_refreshed, token_expired.
C19_UpdateProfileFrame ==
  [][ last'.op = "updateProfile" =>
        /\ UpdateProfileFrame
        /\ ~last'.ok
           => \A k \in DOMAIN last'.events :
                last'.events[k].name \in
                  {EVENTS.NETWORK_ERROR, EVENTS.TOKEN_REFRESHED, EVENTS.TOKEN_EXPIRED}
    ]_vars

C19_Witness ==
  /\ last.op = "updateProfile"
  /\ last.ok
  /\ Stored(STORAGE_KEYS.USER) = JSONstringify("u2")
  /\ Truthy(Stored(STORAGE_KEYS.USER_CACHED_AT))
  /\ clock - parseInt(Stored(STORAGE_KEYS.USER_CACHED_AT)).n = REFRESH_COOLDOWN
  /\ getCurrentUser(CallState, FALSE) = Resolve(CallState, "u2")

\* the keys of the token record
TokenRecordKeys ==
  { STORAGE_KEYS.ACCESS_TOKEN, STORAGE_KEYS.REFRESH_TOKEN,
    STORAGE_KEYS.TOKEN_TYPE, STORAGE_KEYS.EXPIRES_AT }

\* C20: register() called with email, password or password_confirm absent,
\* or with password different from password_confirm, rejects with a
\* ValidationError and sends no request; user_registered is emitted only by
\* a register() that resolved, with the 2xx registration response; and
\* register() sends no token request and leaves the token record as it was.
C20_RegisterValidatesAndKeepsTokens ==
  [][ last'.op = "register" =>
        /\ last'.arg # "complete"
           => /\ ~last'.ok
              /\ last'.e.name = "ValidationError"
              /\ last'.sent = <<>>
              /\ last'.events = <<>>
        /\ EventsNamed(last'.events, EVENTS.USER_REGISTERED) # {}
           => /\ last'.ok
              /\ \E i \in DOMAIN last'.sent :
                   /\ last'.sent[i].url = ENDPOINTS.REGISTER
                   /\ last'.sent[i].status = 200
                   /\ last'.v = last'.sent[i].data
        /\ last'.ok => EventsNamed(last'.events, EVENTS.USER_REGISTERED) # {}
        /\ TokenPosts(last'.sent) = {}
        /\ \A key \in TokenRecordKeys :
             Adapter_getItem(platform', key) = Stored(key)
    ]_vars

\* C21: a getCurrentUser() whose profile fetch fails rejects with the
\* translated failure, returns no profile (the cached one included) and
\* leaves the cached profile and the cache timestamp as they were.
C21_ProfileFetchFailurePropagates ==
  [][ (/\ last'.op = "getCurrentUser"
       /\ last'.sent # <<>>
       /\ UserinfoFetches(last'.sent) = {})
      => (/\ ~last'.ok
          /\ last'.v = Null
          /\ last'.e.name \in AuthKitErrorNames
          /\ Adapter_getItem(platform', STORAGE_KEYS.USER)
               = Stored(STORAGE_KEYS.USER)
          /\ Adapter_getItem(platform', STORAGE_KEYS.USER_CACHED_AT)
               = Stored(STORAGE_KEYS.USER_CACHED_AT)) ]_vars

\* a fetch failed while a profile cached five minutes ago or more was there
C21_Witness ==
  /\ last.op = "getCurrentUser"
  /\ last.arg = "false"
  /\ ~last.ok
  /\ last.sent # <<>>
  /\ Stored(STORAGE_KEYS.USER) \in {JSONstringify(u) : u \in {"u1", "u2"}}
  /\ Truthy(Stored(STORAGE_KEYS.USER_CACHED_AT))
  /\ clock - parseInt(Stored(STORAGE_KEYS.USER_CACHED_AT)).n >= USER_CACHE_DURATION

\* the platform stores p and q agree on every platform key outside keys
SameOutside(p, q, keys) ==
  /\ (DOMAIN p) \ keys = (DOMAIN q) \ keys
  /\ \A k \in (DOMAIN p) \ keys : p[k] = q[k]

\* C22: an AsyncStorageAdapter.clear() that resolves removes every platform
\* key that starts with the adapter's prefix and no other key; getItem,
\* setItem and removeItem of either adapter read, write and delete the
\* platform key prefix + key and leave every other platform key as it was.
C22_AdapterFrame ==
  [][ /\ (last'.op = "clear" /\ last'.ok /\ ~config.secureStorage)
         => /\ DOMAIN platform'
                 = {k \in DOMAIN platform : ~StartsWith(k, "@omam-authkit:")}
            /\ \A k \in DOMAIN platform' : platform'[k] = platform[k]
      /\ last'.op \in {"getItem", "setItem", "removeItem"}
         => LET platformKey ==
                  (IF config.secureStorage THEN "omam-authkit:"
                                           ELSE "@omam-authkit:") \o last'.arg
            IN  /\ SameOutside(platform, platform', {platformKey})
                /\ (last'.op = "getItem")
                   => /\ platform' = platform
                      /\ last'.ok
                         => last'.v = IF platformKey \in DOMAIN platform
                                      THEN platform[platformKey] ELSE Null
                /\ (last'.op = "setItem" /\ last'.ok)
                   => /\ platformKey \in DOMAIN platform'
                      /\ platform'[platformKey] \in {"a", "b"}
                /\ (last'.op = "removeItem" /\ last'.ok)
                   => platformKey \notin DOMAIN platform'
    ]_vars

\* an AsyncStorageAdapter.clear() removed two prefixed keys and kept the
\* key of the other tenant
C22_Witness ==
  /\ last.op = "clear"
  /\ last.ok
  /\ ~config.secureStorage
  /\ last.arg = "2"
  /\ DOMAIN platform = {ForeignKey}
  /\ platform[ForeignKey] = "x"

\* the keys the client writes under
SessionKeys == {STORAGE_KEYS[f] : f \in DOMAIN STORAGE_KEYS}

\* C23: the key list of SecureStoreAdapter.clear() has 8 keys, which are the
\* keys of STORAGE_KEYS, and once a clear() of that adapter has resolved no
\* key of STORAGE_KEYS can be read through the adapter.
C23_SecureClearLeavesNothing ==
  /\ Len(knownKeys) = 8
  /\ {knownKeys[i] : i \in DOMAIN knownKeys} = SessionKeys
  /\ (last.op = "clear" /\ last.ok /\ config.secureStorage)
     => \A key \in SessionKeys : Adapter_getItem(platform, key) = Null

(***************************************************************************)
(* The PKCE utilities on their own, called again and again while time      *)
(* passes                                                                  *)
(***************************************************************************)
PkceClockSteps == 6

\* no utility was called yet; here arg is the argument list and v the
\* PKCEParams of the last call
PkceIdle ==
  [Idle EXCEPT !.arg = [codeVerifier |-> Null, method |-> Null],
               !.v = [codeVerifier |-> Null, codeChallenge |-> Null,
                      codeChallengeMethod |-> Null]]

PkceInit ==
  /\ config \in Configs
  /\ platform = [k \in {ForeignKey} |-> "x"]
  /\ lastRefreshAttempt = 0
  /\ clock = StartClock
  /\ last = PkceIdle
  /\ inflight = [p \in Callers |-> NoCall]
  /\ eventListeners = NoListeners
  /\ authState = InitialAuthState

GenerateCodeChallenge ==
  /\ \E codeVerifier \in DOMAIN Digest, method \in {"S256", "plain"} :
       last' = [PkceIdle EXCEPT
                  !.op = "generateCodeChallenge",
                  !.arg = [codeVerifier |-> codeVerifier, method |-> method],
                  !.v = [PkceIdle.v EXCEPT
                           !.codeChallenge =
                              generateCodeChallenge(codeVerifier, method)]]
  /\ UNCHANGED <<config, eventListeners, authState,
                 platform, lastRefreshAttempt, clock, inflight>>

GeneratePKCEParams ==
  /\ \E n \in Draws, method \in {"S256", "plain"} :
       last' = [PkceIdle EXCEPT
                  !.op = "generatePKCEParams",
                  !.arg = [codeVerifier |-> Null, method |-> method],
                  !.v = generatePKCEParams(n, method)]
  /\ UNCHANGED <<config, eventListeners, authState,
                 platform, lastRefreshAttempt, clock, inflight>>

PkceTick ==
  /\ clock < StartClock + PkceClockSteps
  /\ clock' = clock + 1
  /\ UNCHANGED <<config, eventListeners, authState,
                 platform, lastRefreshAttempt, last, inflight>>

PkceNext ==
  \/ GenerateCodeChallenge
  \/ GeneratePKCEParams
  \/ PkceTick

PkceSpec == PkceInit /\ [][PkceNext]_vars

C25_CallbackFailureCleansUp ==
  (last.op = "handleCallback" /\ ~last.ok) => NoPendingTransaction

\* C27: the cooldown, not the passing of time, ends the chain of refreshes a
\* call sets off: a call settles after a number of refresh requests that
\* does not grow with the time the server takes to answer 401, so in a model
\* that lets MaxTicks cooldown periods pass no call posts more than MaxTicks
\* refresh requests.
C27_CooldownEndsRefreshLoop ==
  Cardinality(RefreshPosts(last.sent)) <= MaxTicks

C28_WitnessPasses ==
  /\ last.op = "refreshAccessToken"
  /\ last.sent # <<>>
  /\ lastRefreshAttempt = clock
  /\ clock = StartClock + REFRESH_COOLDOWN
  /\ last.ok

(***************************************************************************)
(* Calls in flight together.  A call is suspended at each request it       *)
(* awaits; the answer to the request resumes it.  stack holds the requests *)
(* of the call: the last one is in flight, the ones below were answered    *)
(* 401 and wait in the response interceptor for the refreshAccessToken()   *)
(* that posted the request above them.  retry is the _retry flag of the    *)
(* request in flight.  The synchronous code up to the next request,        *)
(* with the storage reads and writes on the way, is one step.              *)
(***************************************************************************)
MaxDepth == 2            \* requests one call may have suspended or in flight

\* the token_expired events emitted while the rejection of the request in
\* flight travels down the stack: one by the catch of each
\* refreshAccessToken, one by each response interceptor waiting for it
RejectionEvents(stack) ==
  [i \in 1 .. (Cardinality({j \in DOMAIN stack : stack[j] = ENDPOINTS.TOKEN})
               + (IF stack = <<>> THEN 0 ELSE Len(stack) - 1))
     |-> EVENTS.TOKEN_EXPIRED]

\* the same when a refreshAccessToken() throws before it posts
ThrowEvents(fr) ==
  [i \in 1 .. (IF /\ fr.stack = <<>>
                  /\ fr.op # "refreshAccessToken"
                  /\ fr.op # "isAuthenticated"
               THEN 0 ELSE IF fr.stack = <<>> THEN 1 ELSE 2)
     |-> EVENTS.TOKEN_EXPIRED]
  \o RejectionEvents(fr.stack)

\* the call of caller p ends with the rejection err of its request or of
\* its refresh: isAuthenticated() turns it into false, logout() ignores it
\* and clears the storage, the other methods reject with it
Ends(p, fr, emitted, err) ==
  LET ended == [fr EXCEPT !.stack = <<>>, !.settled = TRUE,
                          !.events = @ \o emitted]
  IN  IF fr.op = "logout"
      THEN /\ platform' = Adapter_clear(platform)
           /\ inflight' = [inflight EXCEPT ![p] =
                          [ended EXCEPT !.events =
                                   Append(@, EVENTS.USER_LOGGED_OUT)]]
      ELSE /\ platform' = platform
           /\ inflight' = [inflight EXCEPT ![p] =
                          IF fr.op = "isAuthenticated"
                          THEN [ended EXCEPT !.v = "false"]
                          ELSE [ended EXCEPT !.ok = FALSE, !.e = err]]

\* refreshAccessToken() up to its request, called by the method of frame fr
\* or by the response interceptor of the request in flight
Refreshes(p, fr) ==
  IF CooldownActive(clock, lastRefreshAttempt)
  THEN /\ lastRefreshAttempt' = lastRefreshAttempt
       /\ Ends(p, fr, ThrowEvents(fr), "TokenError")
  ELSE /\ lastRefreshAttempt' = RecordAttempt(clock, lastRefreshAttempt)
       /\ LET passed == [fr EXCEPT !.passes = Append(@, clock)]
          IN  IF Truthy(Adapter_getItem(platform, STORAGE_KEYS.REFRESH_TOKEN))
              THEN /\ inflight' = [inflight EXCEPT ![p] =
                                  [passed EXCEPT
                                     !.stack = Append(@, ENDPOINTS.TOKEN),
                                     !.retry = FALSE]]
                   /\ platform' = platform
              ELSE Ends(p, passed, ThrowEvents(fr), "TokenError")

\* the callers start with a session whose access token expired and that
\* holds a refresh token
ConcurrentInit ==
  /\ config \in Configs
  /\ platform =
       LET p0 == [k \in {ForeignKey} |-> "x"]
           p1 == Adapter_setItem(p0, STORAGE_KEYS.ACCESS_TOKEN, "A")
           p2 == Adapter_setItem(p1, STORAGE_KEYS.TOKEN_TYPE, "Bearer")
           p3 == Adapter_setItem(p2, STORAGE_KEYS.REFRESH_TOKEN, "R1")
       IN  Adapter_setItem(p3, STORAGE_KEYS.EXPIRES_AT, toString(StartClock))
  /\ lastRefreshAttempt = 0
  /\ clock = StartClock
  /\ last = Idle
  /\ inflight = [p \in Callers |-> NoCall]
  /\ eventListeners = NoListeners
  /\ authState = InitialAuthState

CallRefreshAccessToken(p) ==
  /\ inflight[p] = NoCall
  /\ Refreshes(p, [NoCall EXCEPT !.op = "refreshAccessToken"])
  /\ UNCHANGED <<config, eventListeners, authState, clock, last>>

CallIsAuthenticated(p) ==
  /\ inflight[p] = NoCall
  /\ LET fr == [NoCall EXCEPT !.op = "isAuthenticated"]
         token == Adapter_getItem(platform, STORAGE_KEYS.ACCESS_TOKEN)
         expiresAt == Adapter_getItem(platform, STORAGE_KEYS.EXPIRES_AT)
         expiry == parseInt(expiresAt)
     IN  IF ~Truthy(token)
         THEN /\ inflight' = [inflight EXCEPT ![p] =
                             [fr EXCEPT !.settled = TRUE, !.v = "false"]]
              /\ UNCHANGED <<platform, lastRefreshAttempt>>
         ELSE IF Truthy(expiresAt) /\ ~expiry.nan /\ clock >= expiry.n
         THEN Refreshes(p, fr)
         ELSE /\ inflight' = [inflight EXCEPT ![p] =
                             [fr EXCEPT !.settled = TRUE, !.v = "true"]]
              /\ UNCHANGED <<platform, lastRefreshAttempt>>
  /\ UNCHANGED <<config, eventListeners, authState, clock, last>>

\* a request to a protected endpoint, as getCurrentUser(true) makes it
CallRequest(p) ==
  /\ inflight[p] = NoCall
  /\ inflight' = [inflight EXCEPT ![p] =
                 [NoCall EXCEPT !.op = "request",
                                !.stack = <<ENDPOINTS.USERINFO>>]]
  /\ UNCHANGED <<config, eventListeners, authState,
                 platform, lastRefreshAttempt, clock, last>>

CallLogout(p) ==
  /\ inflight[p] = NoCall
  /\ LET fr == [NoCall EXCEPT !.op = "logout"]
     IN  IF Truthy(Adapter_getItem(platform, STORAGE_KEYS.ACCESS_TOKEN))
         THEN /\ inflight' = [inflight EXCEPT ![p] =
                             [fr EXCEPT !.stack = <<ENDPOINTS.REVOKE>>]]
              /\ platform' = platform
         ELSE /\ platform' = Adapter_clear(platform)
              /\ inflight' = [inflight EXCEPT ![p] =
                             [fr EXCEPT !.settled = TRUE,
                                        !.events = <<EVENTS.USER_LOGGED_OUT>>]]
  /\ UNCHANGED <<config, eventListeners, authState,
                 lastRefreshAttempt, clock, last>>

\* the request in flight of caller p is answered; the 401 that would make
\* the stack grow beyond MaxDepth is left out
Answered(p) ==
  /\ inflight[p].stack # <<>>
  /\ \E status \in {200, 500} \cup
                    (IF \/ inflight[p].retry
                        \/ Len(inflight[p].stack) < MaxDepth
                        \/ CooldownActive(clock, lastRefreshAttempt)
                     THEN {401} ELSE {}),
        data \in DOMAIN TokenResponse :
       LET fr == inflight[p]
           depth == Len(fr.stack)
           url == fr.stack[depth]
           heard == [fr EXCEPT !.answers =
                       Append(@, [url |-> url, retry |-> fr.retry,
                                  status |-> status])]
       IN  IF status = 200 /\ url = ENDPOINTS.TOKEN
           THEN \* refreshAccessToken stores the tokens and resolves; the
                \* interceptor that awaited it replays its request
                /\ platform' = storeTokens(CallState, data).platform
                /\ lastRefreshAttempt' = lastRefreshAttempt
                /\ inflight' = [inflight EXCEPT ![p] =
                     LET refreshed ==
                           [heard EXCEPT
                              !.stack = SubSeq(@, 1, depth - 1),
                              !.retry = TRUE,
                              !.events = Append(@, EVENTS.TOKEN_REFRESHED)]
                     IN  IF depth > 1 THEN refreshed
                         ELSE [refreshed EXCEPT
                                 !.settled = TRUE, !.retry = FALSE,
                                 !.v = IF fr.op = "isAuthenticated"
                                       THEN "true" ELSE data]]
           ELSE IF status = 200 /\ url = ENDPOINTS.REVOKE
           THEN /\ data = "T1"
                /\ platform' = Adapter_clear(platform)
                /\ lastRefreshAttempt' = lastRefreshAttempt
                /\ inflight' = [inflight EXCEPT ![p] =
                     [heard EXCEPT !.stack = <<>>, !.settled = TRUE,
                                   !.retry = FALSE,
                                   !.events = Append(@, EVENTS.USER_LOGGED_OUT)]]
           ELSE IF status = 200
           THEN /\ data = "T1"
                /\ inflight' = [inflight EXCEPT ![p] =
                     [heard EXCEPT !.stack = <<>>, !.settled = TRUE,
                                   !.retry = FALSE, !.v = "u1"]]
                /\ UNCHANGED <<platform, lastRefreshAttempt>>
           ELSE IF status = 401 /\ ~fr.retry
           THEN /\ data = "T1"
                /\ Refreshes(p, heard)
           ELSE /\ data = "T1"
                /\ lastRefreshAttempt' = lastRefreshAttempt
                /\ Ends(p, heard, RejectionEvents(fr.stack),
                        IF status = 401 THEN "AuthenticationError"
                                        ELSE "NetworkError")
  /\ UNCHANGED <<config, eventListeners, authState, clock, last>>

\* the caller resumes from its settled call
Resumes(p) ==
  /\ inflight[p].settled
  /\ inflight' = [inflight EXCEPT ![p] = NoCall]
  /\ UNCHANGED <<config, eventListeners, authState,
                 platform, lastRefreshAttempt, clock, last>>

\* half a cooldown passes
HalfCooldownPasses ==
  /\ CanAdvance(clock, REFRESH_COOLDOWN \div 2)
  /\ clock' = clock + REFRESH_COOLDOWN \div 2
  /\ UNCHANGED <<config, eventListeners, authState,
                 platform, lastRefreshAttempt, last, inflight>>

ConcurrentNext ==
  \/ \E p \in Callers : CallRefreshAccessToken(p)
  \/ \E p \in Callers : CallIsAuthenticated(p)
  \/ \E p \in Callers : CallRequest(p)
  \/ \E p \in Callers : CallLogout(p)
  \/ \E p \in Callers : Answered(p)
  \/ \E p \in Callers : Resumes(p)
  \/ HalfCooldownPasses

ConcurrentSpec == ConcurrentInit /\ [][ConcurrentNext]_vars

\* the instants at which a call in flight or settled passed the gate
Passes == UNION {{inflight[p].passes[i] : i \in DOMAIN inflight[p].passes} : p \in Callers}

\* C26: whatever the interleaving of the calls, a call passes the gate of
\* refreshAccessToken only one cooldown or more after the attempt recorded
\* last and after every pass of a call still in flight, and records its own
\* instant in the same step; a refresh request is posted only in such a step,
\* so two calls inside one cooldown window never both post one.
C26_GatePassesOneCooldownApart ==
  [][ \A p \in Callers :
        /\ (inflight'[p].passes # inflight[p].passes /\ inflight'[p].op # "none")
           => /\ inflight'[p].passes = Append(inflight[p].passes, clock)
              /\ clock - lastRefreshAttempt >= REFRESH_COOLDOWN
              /\ lastRefreshAttempt' = clock
              /\ \A t \in Passes : clock - t >= REFRESH_COOLDOWN
              /\ \A q \in Callers \ {p} : inflight'[q] = inflight[q]
        /\ Len(inflight'[p].stack) > Len(inflight[p].stack)
             /\ inflight'[p].stack[Len(inflight'[p].stack)] = ENDPOINTS.TOKEN
           => inflight'[p].passes # inflight[p].passes
    ]_vars

\* two calls in flight passed the gate one cooldown apart, the second from
\* the response interceptor of its request
C26_Witness ==
  \E p, q \in Callers :
    /\ inflight[p].passes = <<StartClock>>
    /\ inflight[q].passes = <<StartClock + REFRESH_COOLDOWN>>
    /\ inflight[q].stack = <<ENDPOINTS.USERINFO, ENDPOINTS.TOKEN>>

\* the answers the calls in flight and settled received
AnswersHeard ==
  UNION {{inflight[p].answers[i] : i \in DOMAIN inflight[p].answers} : p \in Callers}

\* the server accepts the refresh token and the refreshed access token, and
\* refuses the expired one: it answers 200 to every refresh request and to
\* every replay, 401 to every first attempt
ServerAcceptsRefreshToken ==
  \A a \in AnswersHeard :
    a.status = IF a.url = ENDPOINTS.TOKEN \/ a.retry THEN 200 ELSE 401

\* C29: when both callers made a request with the expired access token, both
\* requests were answered 401 and the server accepts the refresh token,
\* neither request is rejected to its caller and no token_expired event is
\* emitted.
C29_BothRequestsReplayed ==
  (/\ \A p \in Callers : /\ inflight[p].op = "request"
                         /\ inflight[p].answers # <<>>
   /\ ServerAcceptsRefreshToken)
  => \A p \in Callers :
       /\ inflight[p].ok
       /\ \A k \in DOMAIN inflight[p].events :
            inflight[p].events[k] # EVENTS.TOKEN_EXPIRED

\* C30: once a logout() has resolved, and until the caller resumes from it,
\* storage holds no access token and no refresh token, whatever call was in
\* flight when it resolved (no login or code exchange is started meanwhile).
C30_NoTokensAfterLogout ==
  (\E p \in Callers : inflight[p].op = "logout" /\ inflight[p].settled)
  => /\ Adapter_getItem(platform, STORAGE_KEYS.ACCESS_TOKEN) = Null
     /\ Adapter_getItem(platform, STORAGE_KEYS.REFRESH_TOKEN) = Null

(***************************************************************************)
(* Transactions and sessions across calls                                  *)
(***************************************************************************)
\* C32: a CSRF state is single-use: once a handleCallback(code, state) has
\* posted a token exchange on the strength of a state, a handleCallback called
\* again with that state posts no second exchange, whether the first exchange
\* succeeded or not.
C32_StateIsSingleUse ==
  LET ExchangePosts(sent) ==
        {i \in DOMAIN sent :
           /\ sent[i].url = ENDPOINTS.TOKEN
           /\ sent[i].body.grant_type = GRANT_TYPES.AUTHORIZATION_CODE}
  IN  (last.op = "handleCallback" /\ ExchangePosts(last.sent) # {})
      => \A o \in handleCallback(CallState, "c", last.arg) :
           ExchangePosts(o.s.sent) = {}

\* C33: after a handleCallback or exchangeAuthorizationCode that succeeded
\* (and refreshed nothing on the way) the access token and the refresh token
\* in storage are the ones of the response of that exchange: when the
\* response carries no refresh_token, no refresh token is stored.
C33_TokensFromOneGrant ==
  (/\ last.op \in {"handleCallback", "exchangeAuthorizationCode"}
   /\ last.ok
   /\ last.refreshes = <<>>)
  => /\ Stored(STORAGE_KEYS.ACCESS_TOKEN) = TokenResponse[last.v].access_token
     /\ Stored(STORAGE_KEYS.REFRESH_TOKEN) = TokenResponse[last.v].refresh_token

\* C34: a handleCallback() or login() that rejects leaves the token record,
\* on which isAuthenticated() answers, as it was before the call.
C34_RejectedLoginKeepsSession ==
  [][ (last'.op \in {"handleCallback", "login"} /\ ~last'.ok)
      => \A key \in TokenRecordKeys :
           Adapter_getItem(platform', key) = Stored(key)
    ]_vars

\* C35: whenever login() resolves, a token exchange of that call succeeded:
\* its access token is stored, user_logged_in was emitted and no pending
\* transaction remains, whatever the browser session reported.
C35_LoginResolvesOnlyAfterExchange ==
  (last.op = "login" /\ last.ok)
  => /\ last.stored # NotStored
     /\ EventsNamed(last.events, EVENTS.USER_LOGGED_IN) # {}
     /\ NoPendingTransaction

\* C38: a call that emitted user_logged_in, through login(), handleCallback()
\* or loginWithSocial(), did so with an access token in storage and no
\* pending transaction; a call that emitted user_logged_out did so with the
\* storage cleared.
C38_EventsFollowStorage ==
  /\ EventsNamed(last.events, EVENTS.USER_LOGGED_IN) # {}
     => /\ Truthy(Stored(STORAGE_KEYS.ACCESS_TOKEN))
        /\ NoPendingTransaction
  /\ EventsNamed(last.events, EVENTS.USER_LOGGED_OUT) # {}
     => \A i \in DOMAIN knownKeys : Stored(knownKeys[i]) = Null

(***************************************************************************)
(* The event bus on its own: on, off and emit on a constructed client,     *)
(* with two listeners and two event names. last.events holds the calls     *)
(* listener(data) the last emit made, in order.                            *)
(***************************************************************************)
\* on(event, listener): the Set of the event is created when missing, and
\* Set.prototype.add keeps a listener that is already in it once
on_again(registry, event, listener) ==
  [e \in DOMAIN registry \cup {event} |->
     IF e = event
     THEN Append(IF e \in DOMAIN registry THEN registry[e] ELSE <<>>, listener)
     ELSE registry[e]]

on(registry, event, listener) ==
  [e \in DOMAIN registry \cup {event} |->
     LET set == IF e \in DOMAIN registry THEN registry[e] ELSE <<>>
     IN  IF e # event \/ (\E i \in DOMAIN set : set[i] = listener)
         THEN set ELSE Append(set, listener)]

\* off(event, listener): Set.prototype.delete on the Set of the event, if any
off(registry, event, listener) ==
  IF event \in DOMAIN registry
  THEN [registry EXCEPT ![event] = SelectSeq(@, LAMBDA l : l # listener)]
  ELSE registry

\* emit(event, data): listeners.forEach((listener) => listener(data))
Delivered(registry, event, data) ==
  IF event \in DOMAIN registry
  THEN [i \in DOMAIN registry[event] |->
          [listener |-> registry[event][i], name |-> event, data |-> data]]
  ELSE <<>>

On ==
  \E event \in {EVENTS.USER_LOGGED_IN, EVENTS.TOKEN_EXPIRED},
     listener \in {"l1", "l2"} :
    /\ eventListeners' = on(eventListeners, event, listener)
    /\ last' = [Idle EXCEPT !.op = "on", !.arg = event, !.v = listener]
    /\ UNCHANGED <<config, platform, lastRefreshAttempt, clock, inflight,
                   authState>>

Off ==
  \E event \in {EVENTS.USER_LOGGED_IN, EVENTS.TOKEN_EXPIRED},
     listener \in {"l1", "l2"} :
    /\ eventListeners' = off(eventListeners, event, listener)
    /\ last' = [Idle EXCEPT !.op = "off", !.arg = event, !.v = listener]
    /\ UNCHANGED <<config, platform, lastRefreshAttempt, clock, inflight,
                   authState>>

Emit ==
  \E event \in {EVENTS.USER_LOGGED_IN, EVENTS.TOKEN_EXPIRED} :
    /\ last' = [Idle EXCEPT !.op = "emit", !.arg = event,
                            !.events = Delivered(eventListeners, event, "u1")]
    /\ UNCHANGED <<config, platform, lastRefreshAttempt, clock, inflight,
                   eventListeners, authState>>

BusNext ==
  \/ On
  \/ Off
  \/ Emit

BusSpec == Init /\ [][BusNext]_vars

\* listener l is in the Set of event e
Registered(registry, e, l) ==
  e \in DOMAIN registry /\ \E i \in DOMAIN registry[e] : registry[e][i] = l

RECURSIVE Handle(_, _)
Handle(state, invocations) ==
  IF invocations = <<>> THEN state
  ELSE LET listener == Head(invocations).listener
           data == Head(invocations).data
           loggedOut == [isAuthenticated |-> FALSE, user |-> Null,
                         isLoading |-> FALSE, error |-> Null, tokens |-> Null]
           next ==
             CASE listener = "handleUserLoggedIn" ->
                    [state EXCEPT !.isAuthenticated = TRUE, !.user = data,
                                  !.error = Null]
               [] listener = "handleUserLoggedOut" -> loggedOut
               [] listener = "handleUserUpdated" -> [state EXCEPT !.user = data]
               [] listener = "handleAuthError" ->
                    [state EXCEPT !.error = data, !.isLoading = FALSE]
               [] listener = "handleTokenRefreshed" ->
                    [state EXCEPT !.tokens = data]
               [] listener = "handleTokenExpired" ->
                    [loggedOut EXCEPT !.error = "Session expired"]
               [] OTHER -> state
       IN  Handle(next, Tail(invocations))

\* the events a call of the client emitted, delivered in order
RECURSIVE Deliver(_, _, _)
Deliver(state, registry, events) ==
  IF events = <<>> THEN state
  ELSE Deliver(Handle(state, Delivered(registry, Head(events).name,
                                       Head(events).data)),
               registry, Tail(events))

\* the provider was rendered for the first time: the effect that registers
\* the listeners ran, and initializeAuth() is about to run
ProviderInit ==
  /\ config \in Configs
  /\ platform \in
       { [k \in {ForeignKey} |-> "x"],
         [k \in {ForeignKey, getKey(STORAGE_KEYS.ACCESS_TOKEN)} |->
            IF k = ForeignKey THEN "x" ELSE "A"] }
  /\ lastRefreshAttempt = 0
  /\ clock = StartClock
  /\ last = [Idle EXCEPT !.op = "mount"]
  /\ inflight = [p \in Callers |-> NoCall]
  /\ eventListeners =
       on(on(on(on(on(on(NoListeners,
          EVENTS.USER_LOGGED_IN, "handleUserLoggedIn"),
          EVENTS.USER_LOGGED_OUT, "handleUserLoggedOut"),
          EVENTS.USER_UPDATED, "handleUserUpdated"),
          EVENTS.AUTH_ERROR, "handleAuthError"),
          EVENTS.TOKEN_REFRESHED, "handleTokenRefreshed"),
          EVENTS.TOKEN_EXPIRED, "handleTokenExpired")
  /\ authState = InitialAuthState

\* the awaited call of operation op settled with outcome o and the provider
\* is left with state
ProviderSettle(op, arg, o, state) ==
  /\ platform' = o.s.platform
  /\ lastRefreshAttempt' = o.s.lastRefreshAttempt
  /\ clock' = o.s.clock
  /\ last' = Observation(op, arg, o)
  /\ authState' = state
  /\ UNCHANGED <<config, inflight, eventListeners>>

\* what the catch blocks of the provider's operations do
ProviderCaught(state, o) ==
  IF o.ok THEN state ELSE [state EXCEPT !.isLoading = FALSE, !.error = o.e.name]

InitializeAuth ==
  /\ last.op = "mount"
  /\ \E o \in Then(isAuthenticated(CallState),
                   LAMBDA s2, v : IF v = "true" THEN getCurrentUser(s2, FALSE)
                                  ELSE Resolve(s2, "")) :
       ProviderSettle("initializeAuth", "", o,
         [ isAuthenticated |-> o.ok /\ o.v # "",
           user |-> IF o.ok /\ o.v # "" THEN o.v ELSE Null,
           isLoading |-> FALSE,
           error |-> IF o.ok THEN Null ELSE o.e.name,
           tokens |-> Null ])

ProviderLogin ==
  /\ CanCall
  /\ \E result \in BrowserResults :
       \E o \in login(CallState, 1, "ok", result) :
         ProviderSettle("login", result.type, o,
           ProviderCaught(
             Deliver([authState EXCEPT !.isLoading = TRUE, !.error = Null],
                     eventListeners, o.s.events), o))

ProviderLogout ==
  /\ CanCall
  /\ \E o \in logout(CallState) :
       ProviderSettle("logout", "", o,
         ProviderCaught(
           Deliver([authState EXCEPT !.isLoading = TRUE],
                   eventListeners, o.s.events), o))

ProviderRegister ==
  /\ CanCall
  /\ \E data \in RegistrationData :
       \E o \in register(CallState, data) :
         ProviderSettle("register", RegistrationForm(data), o,
           LET state == Deliver([authState EXCEPT !.isLoading = TRUE,
                                                  !.error = Null],
                                eventListeners, o.s.events)
           IN  IF o.ok THEN [state EXCEPT !.isLoading = FALSE]
               ELSE ProviderCaught(state, o))

ProviderUpdateProfile ==
  /\ CanCall
  /\ \E o \in updateProfile(CallState) :
       ProviderSettle("updateProfile", "", o,
         LET state == Deliver([authState EXCEPT !.isLoading = TRUE,
                                                !.error = Null],
                              eventListeners, o.s.events)
         IN  IF o.ok THEN [state EXCEPT !.user = o.v, !.isLoading = FALSE]
             ELSE ProviderCaught(state, o))

ProviderRefreshToken ==
  /\ CanCall
  /\ \E o \in refreshAccessToken(CallState) :
       ProviderSettle("refreshToken", "", o,
         LET state == Deliver(authState, eventListeners, o.s.events)
         IN  IF o.ok THEN state ELSE [state EXCEPT !.error = o.e.name])

ProviderLoginWithSocial ==
  /\ CanCall
  /\ \E result \in BrowserResults :
       \E o \in loginWithSocial(CallState, result) :
         ProviderSettle("loginWithSocial", result.type, o,
           ProviderCaught(
             Deliver([authState EXCEPT !.isLoading = TRUE, !.error = Null],
                     eventListeners, o.s.events), o))

\* the caller of a settled operation resumes
ProviderReturn ==
  /\ last.op # "mount"
  /\ Return

ProviderNext ==
  \/ InitializeAuth
  \/ ProviderReturn
  \/ ProviderLogin
  \/ ProviderLogout
  \/ ProviderRegister
  \/ ProviderUpdateProfile
  \/ ProviderRefreshToken
  \/ ProviderLoginWithSocial

ProviderSpec == ProviderInit /\ [][ProviderNext]_vars

\* C36: a refreshToken() whose refreshAccessToken() is rejected by the
\* cooldown, with no request sent, leaves isAuthenticated, user and tokens
\* of the provider's state as they were.
C36_RateLimitedRefreshKeepsAuthState ==
  [][ (/\ last'.op = "refreshToken"
       /\ ~last'.ok
       /\ last'.e.message = RateLimitMessage
       /\ last'.sent = <<>>)
      => /\ authState'.isAuthenticated = authState.isAuthenticated
         /\ authState'.user = authState.user
         /\ authState'.tokens = authState.tokens
    ]_vars

\* C37: once initializeAuth, login, logout, register, updateProfile or
\* loginWithSocial has settled, and while no other operation is pending,
\* isLoading is false.
C37_NotLoadingOnceSettled == last.op # "mount" => ~authState.isLoading

(***************************************************************************)
(* Two login() calls in flight on one client                               *)
(***************************************************************************)
\* login() of caller p up to its first await: the state of the attempt is
\* persisted; the p-th draw of the generators is the one of caller p
LoginWritesState(p) ==
  /\ inflight[p] = NoCall
  /\ platform' = Adapter_setItem(platform, STORAGE_KEYS.OAUTH_STATE,
                                 generateState(p))
  /\ inflight' = [inflight EXCEPT ![p] =
                 [NoCall EXCEPT
                    !.op = "login",
                    !.stack = IF config.pkce THEN <<"generatePKCEParams">>
                              ELSE <<"openAuthSessionAsync">>]]
  /\ UNCHANGED <<config, eventListeners, authState,
                 lastRefreshAttempt, clock, last>>

\* generatePKCEParams() resolved: the verifier of the attempt is persisted
\* and the browser session is opened
LoginWritesVerifier(p) ==
  /\ inflight[p].stack = <<"generatePKCEParams">>
  /\ platform' = Adapter_setItem(platform, STORAGE_KEYS.PKCE_VERIFIER,
                                 generatePKCEParams(p, "S256").codeVerifier)
  /\ inflight' = [inflight EXCEPT ![p] =
                 [@ EXCEPT !.stack = <<"openAuthSessionAsync">>]]
  /\ UNCHANGED <<config, eventListeners, authState,
                 lastRefreshAttempt, clock, last>>

\* openAuthSessionAsync of caller p settles; a callback link carries the
\* state of the authorization URL of p, or none. login() goes on to the
\* POST of handleCallback, which it records in answers, or settles
BrowserSettles(p) ==
  /\ inflight[p].stack = <<"openAuthSessionAsync">>
  /\ \E result \in BrowserResults :
       /\ result.link.state \in {generateState(p), Null}
       /\ LET fr == inflight[p]
              s == CallState
              link == result.link
              savedState == getItem(s, STORAGE_KEYS.OAUTH_STATE)
              codeVerifier == getItem(s, STORAGE_KEYS.PKCE_VERIFIER)
              posts == /\ result.type = "success"
                       /\ link.parsed
                       /\ ~Truthy(link.error)
                       /\ Truthy(link.code) /\ Truthy(link.state)
                       /\ ~CsrfCheckFails(link.state, savedState)
              request ==
                Request(s, "POST", ENDPOINTS.TOKEN,
                        [NoBody EXCEPT
                           !.grant_type = GRANT_TYPES.AUTHORIZATION_CODE,
                           !.code = link.code,
                           !.code_verifier =
                              IF config.pkce /\ Truthy(codeVerifier)
                              THEN codeVerifier ELSE Null])
              body ==
                IF result.type = "threw"
                THEN Reject(s, Err("Error", "openAuthSessionAsync failed"))
                ELSE IF result.type = "success"
                THEN IF ~link.parsed
                     THEN Reject(s, Err("DeepLinkError",
                                        "No query parameters found in deep link"))
                     ELSE IF Truthy(link.error)
                     THEN Reject(cleanupOAuthState(s),
                                 AuthenticationError("OAuth error"))
                     ELSE IF ~Truthy(link.code) \/ ~Truthy(link.state)
                     THEN Reject(cleanupOAuthState(s),
                                 AuthenticationError("Missing code or state in callback"))
                     ELSE Reject(cleanupOAuthState(s),
                                 AuthenticationError("Invalid state parameter"))
                ELSE IF result.type = "cancel"
                THEN Reject(cleanupOAuthState(s),
                            AuthenticationError("Login cancelled by user"))
                ELSE Resolve(s, "")
              settled ==
                Catch(body, LAMBDA s2, error :
                        ThrowHandled(emit(cleanupOAuthState(s2),
                                          EVENTS.AUTH_ERROR, error.name),
                                     error))
          IN  IF posts
              THEN /\ platform' = platform
                   /\ inflight' = [inflight EXCEPT ![p] =
                                  [fr EXCEPT !.stack = <<ENDPOINTS.TOKEN>>,
                                             !.answers = <<request>>]]
              ELSE \E o \in settled :
                     /\ platform' = o.s.platform
                     /\ inflight' = [inflight EXCEPT ![p] =
                                    [fr EXCEPT !.stack = <<>>,
                                               !.settled = TRUE,
                                               !.ok = o.ok,
                                               !.e = o.e.name,
                                               !.events = o.s.events]]
  /\ UNCHANGED <<config, eventListeners, authState,
                 lastRefreshAttempt, clock, last>>

\* the token exchange of caller p is answered: the rest of handleCallback
\* and, when it rejects, the catch of login()
ExchangeAnswered(p) ==
  /\ inflight[p].op = "login"
  /\ inflight[p].stack = <<ENDPOINTS.TOKEN>>
  /\ LET fr == inflight[p]
         exchanged ==
           Catch(Then(Http(CallState, fr.answers[1]),
                      LAMBDA s2, tokens :
                        LET s3 == storeTokens(s2, tokens)
                            s4 == removeItem(s3, STORAGE_KEYS.OAUTH_STATE)
                            s5 == removeItem(s4, STORAGE_KEYS.PKCE_VERIFIER)
                        IN  Then(getCurrentUser(s5, FALSE),
                                 LAMBDA s6, user :
                                   Resolve(emit(s6, EVENTS.USER_LOGGED_IN, user),
                                           tokens))),
                 LAMBDA s2, error : ThrowHandled(s2, error))
         settled ==
           Catch(exchanged, LAMBDA s2, error :
                   ThrowHandled(emit(cleanupOAuthState(s2),
                                     EVENTS.AUTH_ERROR, error.name),
                                error))
     IN  \E o \in settled :
           /\ platform' = o.s.platform
           /\ lastRefreshAttempt' = o.s.lastRefreshAttempt
           /\ clock' = o.s.clock
           /\ inflight' = [inflight EXCEPT ![p] =
                          [fr EXCEPT !.stack = <<>>,
                                     !.settled = TRUE,
                                     !.ok = o.ok,
                                     !.e = o.e.name,
                                     !.events = o.s.events]]
  /\ UNCHANGED <<config, eventListeners, authState, last>>

LoginRaceNext ==
  \/ \E p \in Callers : LoginWritesState(p)
  \/ \E p \in Callers : LoginWritesVerifier(p)
  \/ \E p \in Callers : BrowserSettles(p)
  \/ \E p \in Callers : ExchangeAnswered(p)
  \/ \E p \in Callers : Resumes(p)

LoginRaceSpec == Init /\ [][LoginRaceNext]_vars

\* C31: with PKCE, whatever the interleaving of two login() calls: the
\* exchange an attempt posts after its state was validated carries the
\* verifier that attempt generated; once no attempt is between its two
\* writes, the persisted oauth_state and pkce_verifier are those of one
\* attempt; and the step in which an attempt fails or is cancelled leaves
\* the persisted transaction as it was while another attempt awaits its
\* browser session.
C31_AttemptsKeepTheirTransaction ==
  [][ /\ \A p \in Callers :
           (config.pkce /\ inflight'[p].op = "login"
                        /\ inflight'[p].answers # <<>>)
           => inflight'[p].answers[1].body.code_verifier
                = generateCodeVerifier(p)
      /\ (/\ \A p \in Callers : inflight'[p].stack # <<"generatePKCEParams">>
          /\ Adapter_getItem(platform', STORAGE_KEYS.OAUTH_STATE) # Null
          /\ Adapter_getItem(platform', STORAGE_KEYS.PKCE_VERIFIER) # Null)
         => \E n \in Draws :
              /\ Adapter_getItem(platform', STORAGE_KEYS.OAUTH_STATE)
                   = generateState(n)
              /\ Adapter_getItem(platform', STORAGE_KEYS.PKCE_VERIFIER)
                   = generateCodeVerifier(n)
      /\ \A p, q \in Callers :
           (/\ p # q
            /\ config.pkce
            /\ inflight[p].op = "login"
            /\ ~inflight[p].settled
            /\ inflight'[p].settled /\ ~inflight'[p].ok
            /\ inflight[q].stack = <<"openAuthSessionAsync">>)
           => \A key \in PendingTransactionKeys :
                Adapter_getItem(platform', key) = Stored(key)
    ]_vars

====
